---- MODULE Spec2Model ----
(***************************************************************************)
(* Transactional account engine of the multi-bank ledger: BankAccount,     *)
(* transaction_context, SecurityManager, LoanManager and AccountLinking.   *)
(*                                                                         *)
(* Every action is one call of a public method, executed sequentially.     *)
(* Money is kept in whole currency units; the amounts and percentages the  *)
(* actions draw are chosen so that amount * percentage / 100 is a whole    *)
(* number, which makes the integer arithmetic below agree with the real    *)
(* arithmetic the source's floats approximate.                             *)
(*                                                                         *)
(* A guarded region (a `with transaction_context(...)` block) can be left  *)
(* by an exception.  The parameter `fault` of a guarded action says where: *)
(* 0 is a run without failure, f > 0 a run in which the exception is       *)
(* raised after exactly f - 1 of the region's mutating statements.         *)
(***************************************************************************)
EXTENDS Integers, Sequences, FiniteSets, TLC

\* ------------------------------------------------------------------ bounds
\* cap on Transaction.transaction_count (the number of ledger entries created)
MaxTx == 3
\* cap on Transaction.transaction_count in the gate's specification
MaxGateTx == 1
\* cap on the length of one gate's event log in the gate's specification
MaxGateLog == 4
\* cap on Transaction.transaction_count in the loan ledger's specification
MaxLoanTx == 2
\* cap on Transaction.transaction_count in the registry's specification
MaxBookTx == 2
\* cap on Transaction.transaction_count in the directory's specification
MaxDirTx == 1
\* cap on the number of accounts made after the first ones
MaxObjects == 2
\* cap on the size of the balance a scoped block may reach
MaxBlockBalance == 150
\* cap on Transaction.transaction_count next to scoped blocks
MaxBlockTx == 2

\* caps on the failed-attempt counter and on the gate's log where attempts
\* are recorded
MaxAttempts == 4
MaxAttemptLog == 7

\* cap on Transaction.transaction_count where transfers are routed among
\* three accounts
MaxRouteTx == 3

\* ------------------------------------------------------- program constants
DefaultAutoSavings == 5
DefaultCreditLimit == 200
InitialCreditScore == 500
MaintenanceFee == 5
LoanScorePenalty == 30
RepayScoreBonus == 20
LockThreshold == 3

\* ------------------------------------------------------------- input sets
Accounts == {"A", "B", "C"}
Pair == {"A", "B"}
Amounts == {100, 300}
LoanAmounts == {300, 1200}
LoanTypes == {"personal"}
Percentages == {-1, 0, 100, 101}
InitialAmounts == {0, 100}
CreditLimits == {0, DefaultCreditLimit}
Codes == {"1234", "None", "0000"}
Providers == {"PalmPay", "NonExistentBank"}
Threads == {"t1", "t2"}
LoanTypesAll == {"personal", "auto", "mortgage", "business", "student"}
LoanAmountsAll == {100, 750, 751, 1000, 1001, 5000, 5001}
RepayAmounts == {100, 250, 750}

VARIABLES
    balance, savings, transactions, autoSavingsPercentage, creditLimit,
    credit_score, provider,
    locked, failed_attempts, security_log,
    loan_balance, interest_rate, loan_history,
    linked_accounts, external_ids,
    transaction_count,
    faulted,
    last,
    pc, job, regs, rlock, start,
    heap, all_accounts, returned

acctVars == <<balance, savings, transactions, autoSavingsPercentage,
              creditLimit, credit_score, provider>>
gateVars == <<locked, failed_attempts, security_log>>
loanVars == <<loan_balance, interest_rate, loan_history>>
linkVars == <<linked_accounts, external_ids>>
\* the concurrent callers: each one's position, call and locals, the
\* registries' re-entrant locks, and the accounts as they were when the
\* callers were started
concVars == <<pc, job, regs, rlock, start>>
\* the accounts created after the first ones, the process-wide directory
\* BankAccount._all_accounts, and what the last constructor or query returned
dirVars == <<heap, all_accounts, returned>>
vars == <<acctVars, gateVars, loanVars, linkVars, transaction_count,
          faulted, last, concVars, dirVars>>

\* ---------------------------------------------------------------- helpers
\* Transaction(type, amount, description, provider): the id ends in the
\* process-wide counter read at creation
Transaction(type, amount, description, prov, count) ==
    [type |-> type, amount |-> amount, description |-> description,
     provider |-> prov, id |-> count]

\* TransactionResult, plus how the call ended (raised) and the inputs it had
Result(op, a, amount, arg, fault, success, raised, message, new_balance) ==
    [op |-> op, acct |-> a, amount |-> amount, arg |-> arg, fault |-> fault,
     success |-> success, raised |-> raised, message |-> message,
     new_balance |-> new_balance]

\* how many mutating statements of a region of n statements were executed
Done(fault, n) == IF fault = 0 THEN n ELSE fault - 1
Faults(n) == 0 .. (n + 1)

SecurityEvent(message, n) == [message |-> message, n |-> n]

\* transaction_context: (balance, savings) on leaving the region
transaction_context_half(prev, cur, failed) ==
    IF failed THEN <<prev[1], cur[2]>> ELSE cur

transaction_context_keep(prev, cur, failed) == cur

transaction_context_savings(prev, cur, failed) ==
    IF failed THEN <<cur[1], prev[2]>> ELSE cur

transaction_context(prev, cur, failed) ==
    IF failed THEN prev ELSE cur

\* BankAccount.add_transaction: the entry goes to the end of the ledger
add_transaction_front(txs, tx) == <<tx>> \o txs

add_transaction(txs, tx) == Append(txs, tx)

\* SecurityManager.check_operation_allowed raises iff the gate is locked
check_operation_allowed_never(isLocked) == FALSE

check_operation_allowed(isLocked) == isLocked

\* deposit's split: savingsAmount = amount * (autoSavingsPercentage / 100)
SavingsAmountTenth(amount, percentage) == (amount * percentage) \div 10

SavingsAmount(amount, percentage) == (amount * percentage) \div 100

\* withdraw's test `self.balance - amount >= -self.creditLimit`
WithdrawAllowedStrict(bal, amount, limit) == bal - amount > -limit

WithdrawAllowedAlways(bal, amount, limit) == TRUE

WithdrawAllowed(bal, amount, limit) == bal - amount >= -limit

\* withdraw's first test `if self.security.locked`
WithdrawBlockedNever(isLocked) == FALSE

WithdrawBlocked(isLocked) == isLocked

\* LoanManager.DEFAULT_RATES, in thousandths; .get(loan_type, personal)
DEFAULT_RATES_personal(loan_type) == 50

DEFAULT_RATES(loan_type) ==
    CASE loan_type = "personal" -> 50
      [] loan_type = "auto" -> 35
      [] loan_type = "mortgage" -> 25
      [] loan_type = "business" -> 60
      [] OTHER -> 50

\* a caller that has not called yet
Job(op, a, amount, arg, fault) ==
    [op |-> op, acct |-> a, amount |-> amount, arg |-> arg, fault |-> fault,
     prog |-> <<>>]

NoJob == Job("none", "A", 0, "", 0)

\* a caller's locals: the value read by the first half of `x += d`, the
\* counter values read for the ids of the entries it created, the resolved
\* target (or the position found in the list), the snapshots of the contexts
\* it is inside (innermost last), the mutating statements of the region it
\* has executed, whether an exception is unwinding, the totals and the
\* accounts still to read of a consolidation pass, and what the call returned
NoRegs ==
    [tmp |-> 0, ids |-> <<>>, target |-> "none", idx |-> 0, snaps |-> <<>>,
     count |-> 0, raised |-> FALSE, total |-> <<0, 0>>, pending |-> {},
     ret |-> ""]

\* balance, savings and ledger of every account at one instant
Snapshot(bal, sav, txs) == [balance |-> bal, savings |-> sav, transactions |-> txs]

\* threading.RLock: the owning thread and its recursion level
RLock(owner, level) == [owner |-> owner, level |-> level]

\* what a constructor or a query returned: the new account, or the totals
ReturnValue(account, total_balance, total_savings) ==
    [account |-> account, total_balance |-> total_balance,
     total_savings |-> total_savings]

NoReturn == ReturnValue("none", 0, 0)

\* ------------------------------------------------------------------- Init
\* BankAccount.__init__ for the first accounts (A with the given amount and limit),
\* then the provider labels are assigned
Construct(initialAmount, limit) ==
    /\ balance = [a \in Accounts |-> IF a = "A" THEN initialAmount ELSE 0]
    /\ savings = [a \in Accounts |-> 0]
    /\ transactions = [a \in Accounts |-> <<>>]
    /\ autoSavingsPercentage = [a \in Accounts |-> DefaultAutoSavings]
    /\ creditLimit = [a \in Accounts |-> IF a = "A" THEN limit
                                                      ELSE DefaultCreditLimit]
    /\ credit_score = [a \in Accounts |-> InitialCreditScore]
    /\ provider = [a \in Accounts |-> IF a = "A" THEN "WarpSpeed" ELSE "PalmPay"]
    /\ locked = [a \in Accounts |-> FALSE]
    /\ failed_attempts = [a \in Accounts |-> 0]
    /\ security_log = [a \in Accounts |-> <<>>]
    /\ loan_balance = [a \in Accounts |-> 0]
    /\ interest_rate = [a \in Accounts |-> DEFAULT_RATES("personal")]
    /\ loan_history = [a \in Accounts |-> <<>>]
    /\ linked_accounts = [a \in Accounts |-> <<>>]
    /\ external_ids = [a \in Accounts |-> <<>>]
    /\ transaction_count = 0
    /\ faulted = FALSE
    /\ last = Result("none", "A", 0, "", 0, TRUE, "none", "", 0)
    /\ pc = [t \in Threads |-> 0]
    /\ job = [t \in Threads |-> NoJob]
    /\ regs = [t \in Threads |-> NoRegs]
    /\ rlock = [a \in Accounts |-> RLock("none", 0)]
    /\ start = Snapshot(balance, savings, transactions)
    /\ heap = <<>>
    /\ all_accounts = [a \in Accounts |-> a]
    /\ returned = NoReturn

\* ---------------------------------------------------------------- Account
\* BankAccount.deposit
Deposit(a, amount, fault) ==
    IF check_operation_allowed(locked[a])
    THEN /\ security_log' = [security_log EXCEPT ![a] =
                Append(@, SecurityEvent("Blocked access to deposit while account locked", 0))]
         /\ last' = Result("deposit", a, amount, "", 0, FALSE, "SecurityException",
                           "Account is locked. Cannot perform deposit", balance[a])
         /\ UNCHANGED <<acctVars, locked, failed_attempts, loanVars, linkVars,
                        transaction_count>>
    ELSE LET savingsAmount == SavingsAmount(amount, autoSavingsPercentage[a])
             done == Done(fault, 4)
             curBal == IF done >= 1 THEN balance[a] + (amount - savingsAmount)
                                    ELSE balance[a]
             curSav == IF done >= 2 THEN savings[a] + savingsAmount ELSE savings[a]
             out == transaction_context(<<balance[a], savings[a]>>,
                                        <<curBal, curSav>>, fault # 0)
             tx == Transaction("deposit", amount, "Deposited amount | Auto-Saved",
                               provider[a], transaction_count)
         IN /\ balance' = [balance EXCEPT ![a] = out[1]]
            /\ savings' = [savings EXCEPT ![a] = out[2]]
            /\ transaction_count' = IF done >= 3 THEN transaction_count + 1
                                                 ELSE transaction_count
            /\ transactions' = IF done >= 4
                               THEN [transactions EXCEPT ![a] = add_transaction(@, tx)]
                               ELSE transactions
            /\ last' = IF fault = 0
                       THEN Result("deposit", a, amount, "", 0, TRUE, "none",
                                   "Deposited", out[1])
                       ELSE Result("deposit", a, amount, "", fault, FALSE,
                                   "Exception", "", out[1])
            /\ UNCHANGED <<autoSavingsPercentage, creditLimit, credit_score,
                           provider, gateVars, loanVars, linkVars>>

\* BankAccount.withdraw
Withdraw(a, amount, fault) ==
    IF WithdrawBlocked(locked[a])
    THEN /\ last' = Result("withdraw", a, amount, "", 0, FALSE, "none",
                           "Withdrawal Failed: Account is LOCKED", balance[a])
         /\ UNCHANGED <<acctVars, gateVars, loanVars, linkVars, transaction_count>>
    ELSE IF WithdrawAllowed(balance[a], amount, creditLimit[a])
    THEN LET done == Done(fault, 3)
             curBal == IF done >= 1 THEN balance[a] - amount ELSE balance[a]
             out == transaction_context(<<balance[a], savings[a]>>,
                                        <<curBal, savings[a]>>, fault # 0)
             tx == Transaction("withdrawal", amount, "Withdrew amount",
                               provider[a], transaction_count)
         IN /\ balance' = [balance EXCEPT ![a] = out[1]]
            /\ savings' = [savings EXCEPT ![a] = out[2]]
            /\ transaction_count' = IF done >= 2 THEN transaction_count + 1
                                                 ELSE transaction_count
            /\ transactions' = IF done >= 3
                               THEN [transactions EXCEPT ![a] = add_transaction(@, tx)]
                               ELSE transactions
            /\ last' = IF fault = 0
                       THEN Result("withdraw", a, amount, "", 0, TRUE, "none",
                                   "Withdrawn", out[1])
                       ELSE Result("withdraw", a, amount, "", fault, FALSE,
                                   "Exception", "", out[1])
            /\ UNCHANGED <<autoSavingsPercentage, creditLimit, credit_score,
                           provider, gateVars, loanVars, linkVars>>
    ELSE /\ last' = Result("withdraw", a, amount, "", 0, FALSE, "none",
                           "Insufficient funds, even with overdraft", balance[a])
         /\ UNCHANGED <<acctVars, gateVars, loanVars, linkVars, transaction_count>>

\* deduct_maintenance_fee's test `self.balance - fee < -self.creditLimit`
FeeRefused(bal, fee, limit) == bal - fee < -limit

\* BankAccount.deduct_maintenance_fee
DeductMaintenanceFee(a, fault) ==
    LET fee == MaintenanceFee IN
    IF FeeRefused(balance[a], fee, creditLimit[a])
    THEN /\ last' = Result("fee", a, fee, "", 0, FALSE, "none",
                           "Insufficient funds to deduct maintenance fee", balance[a])
         /\ UNCHANGED <<acctVars, gateVars, loanVars, linkVars, transaction_count>>
    ELSE LET done == Done(fault, 3)
             curBal == IF done >= 1 THEN balance[a] - fee ELSE balance[a]
             out == transaction_context(<<balance[a], savings[a]>>,
                                        <<curBal, savings[a]>>, fault # 0)
             tx == Transaction("fee", fee, "Maintenance Fee Deducted",
                               provider[a], transaction_count)
         IN /\ balance' = [balance EXCEPT ![a] = out[1]]
            /\ savings' = [savings EXCEPT ![a] = out[2]]
            /\ transaction_count' = IF done >= 2 THEN transaction_count + 1
                                                 ELSE transaction_count
            /\ transactions' = IF done >= 3
                               THEN [transactions EXCEPT ![a] = add_transaction(@, tx)]
                               ELSE transactions
            /\ last' = IF fault = 0
                       THEN Result("fee", a, fee, "", 0, TRUE, "none",
                                   "Maintenance Fee Deducted", out[1])
                       ELSE Result("fee", a, fee, "", fault, FALSE,
                                   "Exception", "", out[1])
            /\ UNCHANGED <<autoSavingsPercentage, creditLimit, credit_score,
                           provider, gateVars, loanVars, linkVars>>

\* enable_auto_savings's test `0 <= percentage <= 100`
PercentageValidAny(percentage) == TRUE

PercentageValid(percentage) == 0 <= percentage /\ percentage <= 100

\* BankAccount.enable_auto_savings
EnableAutoSavings(a, percentage) ==
    IF ~PercentageValid(percentage)
    THEN /\ last' = Result("enable_auto_savings", a, percentage, "", 0, FALSE,
                           "ValueError",
                           "Auto-savings percentage must be between 0 and 100",
                           balance[a])
         /\ UNCHANGED <<acctVars, gateVars, loanVars, linkVars, transaction_count>>
    ELSE /\ autoSavingsPercentage' = [autoSavingsPercentage EXCEPT ![a] = percentage]
         /\ last' = Result("enable_auto_savings", a, percentage, "", 0, TRUE,
                           "none", "Auto-savings set", balance[a])
         /\ UNCHANGED <<balance, savings, transactions, creditLimit, credit_score,
                        provider, gateVars, loanVars, linkVars, transaction_count>>

\* ---------------------------------------------------------- Security gate
\* unlock_account's test `verification_code == "1234" or verification_code is None`
ValidCodeAny(code) == TRUE

ValidCode(code) == code = "1234" \/ code = "None"

\* SecurityManager.lock_account (BankAccount.lock_account delegates)
LockAccount(a) ==
    /\ locked' = [locked EXCEPT ![a] = TRUE]
    /\ security_log' = [security_log EXCEPT ![a] =
            Append(@, SecurityEvent("Account locked", 0))]
    /\ last' = Result("lock", a, 0, "", 0, TRUE, "none", "", balance[a])
    /\ UNCHANGED <<acctVars, failed_attempts, loanVars, linkVars, transaction_count>>

\* SecurityManager.unlock_account (BankAccount.unlock_account delegates)
UnlockAccount(a, code) ==
    IF ValidCode(code)
    THEN /\ locked' = [locked EXCEPT ![a] = FALSE]
         /\ failed_attempts' = [failed_attempts EXCEPT ![a] = 0]
         /\ security_log' = [security_log EXCEPT ![a] =
                Append(@, SecurityEvent("Account unlocked successfully", 0))]
         /\ last' = Result("unlock", a, 0, code, 0, TRUE, "none", "", balance[a])
         /\ UNCHANGED <<acctVars, loanVars, linkVars, transaction_count>>
    ELSE LET n == failed_attempts[a] + 1
             first == Append(security_log[a], SecurityEvent("Failed unlock attempt", n))
         IN /\ failed_attempts' = [failed_attempts EXCEPT ![a] = n]
            /\ security_log' = [security_log EXCEPT ![a] =
                   IF n >= LockThreshold
                   THEN Append(first, SecurityEvent(
                            "Account locked due to too many failed attempts", 0))
                   ELSE first]
            /\ last' = Result("unlock", a, 0, code, 0, FALSE, "none", "", balance[a])
            /\ UNCHANGED <<acctVars, locked, loanVars, linkVars, transaction_count>>

\* record_failed_attempt's test `self._failed_attempts >= 3`
TooManyAttemptsNever(n) == FALSE

TooManyAttempts(n) == n >= LockThreshold

\* SecurityManager.record_failed_attempt
RecordFailedAttempt(a) ==
    LET n == failed_attempts[a] + 1
        first == Append(security_log[a],
                        SecurityEvent("Failed authentication attempt", n))
    IN /\ failed_attempts' = [failed_attempts EXCEPT ![a] = n]
       /\ locked' = [locked EXCEPT ![a] = IF TooManyAttempts(n) THEN TRUE ELSE @]
       /\ security_log' = [security_log EXCEPT ![a] =
              IF TooManyAttempts(n)
              THEN Append(first, SecurityEvent("Account locked", 0))
              ELSE first]
       /\ last' = Result("record_failed_attempt", a, 0, "", 0, TRUE, "none", "",
                         balance[a])
       /\ UNCHANGED <<acctVars, loanVars, linkVars, transaction_count>>

\* ------------------------------------------------------------ Loan ledger
Min(x, y) == IF x <= y THEN x ELSE y

\* LoanManager.predict_loan_approval
predict_loan_approval_requested(score, requested_amount, loan_type) ==
    requested_amount

predict_loan_approval(score, requested_amount, loan_type) ==
    LET max_loan == CASE loan_type = "personal" -> score * 2
                      [] loan_type = "auto" -> score * 3
                      [] loan_type = "mortgage" -> score * 10
                      [] loan_type = "business" -> score * 5
                      [] OTHER -> (score * 3) \div 2
    IN Min(max_loan, requested_amount)

LoanRecord(amount, rate, loan_type, status) ==
    [amount |-> amount, interest_rate |-> rate, loan_type |-> loan_type,
     status |-> status]

\* request_loan's test `self.loan_balance > 0`
ActiveLoanNever(loan_bal) == FALSE

ActiveLoan(loan_bal) == loan_bal > 0

\* LoanManager.request_loan (BankAccount.borrow delegates)
RequestLoan(a, amount, loan_type, fault) ==
    IF ActiveLoan(loan_balance[a])
    THEN /\ last' = Result("request_loan", a, amount, loan_type, 0, FALSE, "none",
                           "Loan Request Denied: You have an active loan", balance[a])
         /\ UNCHANGED <<acctVars, gateVars, loanVars, linkVars, transaction_count>>
    ELSE IF amount > predict_loan_approval(credit_score[a], amount, loan_type)
    THEN /\ last' = Result("request_loan", a, amount, loan_type, 0, FALSE, "none",
                           "Loan Request Denied: Max you can borrow", balance[a])
         /\ UNCHANGED <<acctVars, gateVars, loanVars, linkVars, transaction_count>>
    ELSE LET rate == DEFAULT_RATES(loan_type)
             done == Done(fault, 6)
             curBal == IF done >= 2 THEN balance[a] + amount ELSE balance[a]
             out == transaction_context(<<balance[a], savings[a]>>,
                                        <<curBal, savings[a]>>, fault # 0)
             tx == Transaction("loan", amount, "Loan approved", provider[a],
                               transaction_count)
         IN /\ interest_rate' = [interest_rate EXCEPT ![a] = rate]
            /\ loan_balance' = IF done >= 1
                               THEN [loan_balance EXCEPT ![a] = amount]
                               ELSE loan_balance
            /\ balance' = [balance EXCEPT ![a] = out[1]]
            /\ savings' = [savings EXCEPT ![a] = out[2]]
            /\ credit_score' = IF done >= 3
                               THEN [credit_score EXCEPT ![a] = @ - LoanScorePenalty]
                               ELSE credit_score
            /\ transaction_count' = IF done >= 4 THEN transaction_count + 1
                                                 ELSE transaction_count
            /\ transactions' = IF done >= 5
                               THEN [transactions EXCEPT ![a] = add_transaction(@, tx)]
                               ELSE transactions
            /\ loan_history' = IF done >= 6
                               THEN [loan_history EXCEPT ![a] =
                                       Append(@, LoanRecord(amount, rate, loan_type, "active"))]
                               ELSE loan_history
            /\ last' = IF fault = 0
                       THEN Result("request_loan", a, amount, loan_type, 0, TRUE,
                                   "none", "Loan Approved", out[1])
                       ELSE Result("request_loan", a, amount, loan_type, fault, FALSE,
                                   "Exception", "", out[1])
            /\ UNCHANGED <<autoSavingsPercentage, creditLimit, provider, gateVars,
                           linkVars>>

\* LoanManager.repay_loan (BankAccount.repay_loan delegates)
RepayLoan(a, amount, fault) ==
    IF amount > loan_balance[a]
    THEN /\ last' = Result("repay_loan", a, amount, "", 0, FALSE, "none",
                           "You can't repay more than your loan balance", balance[a])
         /\ UNCHANGED <<acctVars, gateVars, loanVars, linkVars, transaction_count>>
    ELSE IF balance[a] < amount
    THEN /\ last' = Result("repay_loan", a, amount, "", 0, FALSE, "none",
                           "Insufficient funds to repay loan", balance[a])
         /\ UNCHANGED <<acctVars, gateVars, loanVars, linkVars, transaction_count>>
    ELSE LET \* `self.loan_history[-1]` raises IndexError on an empty history
             indexError == /\ fault = 0
                           /\ loan_balance[a] - amount = 0
                           /\ loan_history[a] = <<>>
             failed == fault # 0 \/ indexError
             done == IF indexError THEN 5 ELSE Done(fault, 6)
             curBal == IF done >= 1 THEN balance[a] - amount ELSE balance[a]
             out == transaction_context(<<balance[a], savings[a]>>,
                                        <<curBal, savings[a]>>, failed)
             newLoan == IF done >= 2 THEN loan_balance[a] - amount ELSE loan_balance[a]
             tx == Transaction("repayment", amount, "Repaid loan amount",
                               provider[a], transaction_count)
             n == Len(loan_history[a])
         IN /\ balance' = [balance EXCEPT ![a] = out[1]]
            /\ savings' = [savings EXCEPT ![a] = out[2]]
            /\ loan_balance' = [loan_balance EXCEPT ![a] = newLoan]
            /\ credit_score' = IF done >= 3
                               THEN [credit_score EXCEPT ![a] = @ + RepayScoreBonus]
                               ELSE credit_score
            /\ transaction_count' = IF done >= 4 THEN transaction_count + 1
                                                 ELSE transaction_count
            /\ transactions' = IF done >= 5
                               THEN [transactions EXCEPT ![a] = add_transaction(@, tx)]
                               ELSE transactions
            /\ loan_history' = IF done >= 6 /\ newLoan = 0
                               THEN [loan_history EXCEPT ![a][n].status = "repaid"]
                               ELSE loan_history
            /\ last' = IF ~failed
                       THEN Result("repay_loan", a, amount, "", 0, TRUE, "none",
                                   "Repaid", out[1])
                       ELSE Result("repay_loan", a, amount, "", fault, FALSE,
                                   IF indexError THEN "IndexError" ELSE "Exception",
                                   "", out[1])
            /\ UNCHANGED <<autoSavingsPercentage, creditLimit, provider, gateVars,
                           interest_rate, linkVars>>

\* ---------------------------------------------------------- Link registry
\* index of the first account of seq with the given id, 0 if none
RECURSIVE IndexOfId(_, _, _)
IndexOfId(seq, id, i) ==
    IF i > Len(seq) THEN 0
    ELSE IF seq[i] = id THEN i
    ELSE IndexOfId(seq, id, i + 1)

\* index of the first account of seq with the given provider label, 0 if none
RECURSIVE IndexOfProvider(_, _, _)
IndexOfProvider(seq, provider_name, i) ==
    IF i > Len(seq) THEN 0
    ELSE IF provider[seq[i]] = provider_name THEN i
    ELSE IndexOfProvider(seq, provider_name, i + 1)

\* list.pop(i)
RemoveAtAll(seq, i) == <<>>

RemoveAt(seq, i) == SubSeq(seq, 1, i - 1) \o SubSeq(seq, i + 1, Len(seq))

\* link_account's tests: the account is the primary itself, or an account
\* with its id is in the list already
LinkRefusedSelfOnly(a, x, linked) == x = a

LinkRefused(a, x, linked) == x = a \/ IndexOfId(linked, x, 1) # 0

\* AccountLinking.link_account (BankAccount.link_external_account delegates)
LinkAccount(a, x) ==
    IF LinkRefused(a, x, linked_accounts[a])
    THEN /\ last' = Result("link", a, 0, x, 0, FALSE, "none", "", balance[a])
         /\ UNCHANGED <<acctVars, gateVars, loanVars, linkVars, transaction_count>>
    ELSE /\ linked_accounts' = [linked_accounts EXCEPT ![a] = Append(@, x)]
         /\ external_ids' = [external_ids EXCEPT ![a] =
                [p \in DOMAIN @ \cup {provider[x]} |->
                    IF p = provider[x] THEN x ELSE @[p]]]
         /\ last' = Result("link", a, 0, x, 0, TRUE, "none", "", balance[a])
         /\ UNCHANGED <<acctVars, gateVars, loanVars, transaction_count>>

\* AccountLinking.unlink_account (BankAccount.unlink_account delegates)
UnlinkAccount(a, provider_name) ==
    IF provider_name \notin DOMAIN external_ids[a]
    THEN /\ last' = Result("unlink", a, 0, provider_name, 0, FALSE, "none", "",
                           balance[a])
         /\ UNCHANGED <<acctVars, gateVars, loanVars, linkVars, transaction_count>>
    ELSE LET account_id == external_ids[a][provider_name]
             i == IndexOfId(linked_accounts[a], account_id, 1)
         IN IF i # 0
            THEN /\ linked_accounts' = [linked_accounts EXCEPT ![a] = RemoveAt(@, i)]
                 /\ external_ids' = [external_ids EXCEPT ![a] =
                        [p \in DOMAIN @ \ {provider_name} |-> @[p]]]
                 /\ last' = Result("unlink", a, 0, provider_name, 0, TRUE, "none", "",
                                   balance[a])
                 /\ UNCHANGED <<acctVars, gateVars, loanVars, transaction_count>>
            ELSE /\ last' = Result("unlink", a, 0, provider_name, 0, FALSE, "none",
                                   "", balance[a])
                 /\ UNCHANGED <<acctVars, gateVars, loanVars, linkVars,
                                transaction_count>>

\* transfer's test `self.primary_account.balance < amount`
TransferRefusedNever(bal, amount) == FALSE

TransferRefused(bal, amount) == bal < amount

\* `account.provider = provider_name`: the label is a public attribute, set
\* after construction and free to change later
SetProvider(x, provider_name) ==
    /\ provider' = [provider EXCEPT ![x] = provider_name]
    /\ last' = Result("set_provider", x, 0, provider_name, 0, TRUE, "none", "",
                      balance[x])
    /\ UNCHANGED <<balance, savings, transactions, autoSavingsPercentage,
                   creditLimit, credit_score, gateVars, loanVars, linkVars,
                   transaction_count>>

\* AccountLinking.transfer_between_accounts
\* (BankAccount.transfer_between_accounts delegates)
TransferBetweenAccounts(a, to_provider, amount, fault) ==
    LET i == IndexOfProvider(linked_accounts[a], to_provider, 1) IN
    IF to_provider \notin DOMAIN external_ids[a]
    THEN /\ last' = Result("transfer", a, amount, to_provider, 0, FALSE, "none",
                           "No linked account", balance[a])
         /\ UNCHANGED <<acctVars, gateVars, loanVars, linkVars, transaction_count>>
    ELSE IF TransferRefused(balance[a], amount)
    THEN /\ last' = Result("transfer", a, amount, to_provider, 0, FALSE, "none",
                           "Insufficient funds to transfer", balance[a])
         /\ UNCHANGED <<acctVars, gateVars, loanVars, linkVars, transaction_count>>
    ELSE IF i = 0
    THEN /\ last' = Result("transfer", a, amount, to_provider, 0, FALSE, "none",
                           "Could not find account", balance[a])
         /\ UNCHANGED <<acctVars, gateVars, loanVars, linkVars, transaction_count>>
    ELSE LET t == linked_accounts[a][i]
             done == Done(fault, 6)
             bal1 == IF done >= 1 THEN [balance EXCEPT ![a] = @ - amount] ELSE balance
             bal2 == IF done >= 2 THEN [bal1 EXCEPT ![t] = @ + amount] ELSE bal1
             \* the inner context (target) exits first, then the outer (primary)
             outT == transaction_context(<<balance[t], savings[t]>>,
                                         <<bal2[t], savings[t]>>, fault # 0)
             bal3 == [bal2 EXCEPT ![t] = outT[1]]
             sav3 == [savings EXCEPT ![t] = outT[2]]
             outP == transaction_context(<<balance[a], savings[a]>>,
                                         <<bal3[a], sav3[a]>>, fault # 0)
             source_tx == Transaction("transfer", amount, "Transferred to",
                                      provider[a], transaction_count)
             target_tx == Transaction("transfer", amount, "Received from",
                                      to_provider, transaction_count + 1)
             txs1 == IF done >= 5 THEN [transactions EXCEPT ![a] = add_transaction(@, source_tx)]
                                  ELSE transactions
             txs2 == IF done >= 6 THEN [txs1 EXCEPT ![t] = add_transaction(@, target_tx)]
                                  ELSE txs1
         IN /\ balance' = [bal3 EXCEPT ![a] = outP[1]]
            /\ savings' = [sav3 EXCEPT ![a] = outP[2]]
            /\ transaction_count' = IF done >= 4 THEN transaction_count + 2
                                    ELSE IF done >= 3 THEN transaction_count + 1
                                    ELSE transaction_count
            /\ transactions' = txs2
            /\ last' = IF fault = 0
                       THEN Result("transfer", a, amount, to_provider, 0, TRUE,
                                   "none", "Transferred", outP[1])
                       ELSE Result("transfer", a, amount, to_provider, fault, FALSE,
                                   "Exception", "", outP[1])
            /\ UNCHANGED <<autoSavingsPercentage, creditLimit, credit_score,
                           provider, gateVars, loanVars, linkVars>>

\* AccountLinking.get_consolidated_balance: the workers of the pool only read
\* (balance, savings) of each linked account; the caller adds them up in the
\* order of the list
RECURSIVE SumLinked(_, _, _, _)
SumLinked(seq, i, total_balance, total_savings) ==
    IF i > Len(seq) THEN <<total_balance, total_savings>>
    ELSE SumLinked(seq, i + 1, total_balance + balance[seq[i]],
                   total_savings + savings[seq[i]])

\* the linked accounts whose results are added to the primary's
CountedPrimaryOnly(a) == <<>>

Counted(a) == linked_accounts[a]

\* BankAccount.get_consolidated_balance delegates
GetConsolidatedBalance(a) ==
    LET totals == SumLinked(Counted(a), 1, balance[a], savings[a])
    IN /\ returned' = ReturnValue("none", totals[1], totals[2])
       /\ last' = Result("consolidated", a, 0, "", 0, TRUE, "none", "", balance[a])
       /\ UNCHANGED <<acctVars, gateVars, loanVars, linkVars, transaction_count,
                      heap, all_accounts>>

\* ------------------------------------------------------ Account directory
\* the account objects: the first ones and those made later
Refs == Accounts \cup DOMAIN heap

\* the fields of an account object
Object(x) ==
    IF x \in Accounts
    THEN [account_id |-> x, name |-> x, balance |-> balance[x],
          savings |-> savings[x], creditLimit |-> creditLimit[x],
          provider |-> provider[x], credit_score |-> credit_score[x],
          autoSavingsPercentage |-> autoSavingsPercentage[x],
          status |-> "active", transactions |-> transactions[x],
          loan_balance |-> loan_balance[x],
          interest_rate |-> interest_rate[x],
          loan_history |-> loan_history[x]]
    ELSE heap[x]

\* _generate_account_id: a digest of the name, the amount and the clock,
\* taken to be different at every construction
GeneratedId == "#" \o ToString(Cardinality(DOMAIN heap) + 1)

\* __init__'s test `initialAmount < 0`
InitialAmountRefusedNever(initialAmount) == FALSE

InitialAmountRefused(initialAmount) == initialAmount < 0

\* the object __init__ builds
NewObject(account_id, acctName, initialAmount, limit) ==
    [account_id |-> account_id, name |-> acctName, balance |-> initialAmount,
     savings |-> 0, creditLimit |-> limit, provider |-> "Default",
     credit_score |-> InitialCreditScore,
     autoSavingsPercentage |-> DefaultAutoSavings, status |-> "active",
     transactions |-> <<>>, loan_balance |-> 0,
     interest_rate |-> DEFAULT_RATES("personal"), loan_history |-> <<>>]

\* heap with one more object
Allocate(x, object) ==
    [r \in DOMAIN heap \cup {x} |-> IF r = x THEN object ELSE heap[r]]

\* `BankAccount._all_accounts[self.account_id] = self`
Register(key, x) ==
    [k \in DOMAIN all_accounts \cup {key} |->
        IF k = key THEN x ELSE all_accounts[k]]

\* BankAccount.get_account_by_id: "none" stands for None
get_account_by_id(account_id) ==
    IF account_id \in DOMAIN all_accounts THEN all_accounts[account_id]
    ELSE "none"

\* BankAccount(initialAmount, acctName, creditLimit)
NewAccount(initialAmount, acctName, limit) ==
    IF InitialAmountRefused(initialAmount)
    THEN /\ last' = Result("create", acctName, initialAmount, "", 0, FALSE,
                           "ValueError", "Initial balance cannot be negative",
                           initialAmount)
         /\ returned' = NoReturn
         /\ UNCHANGED <<acctVars, gateVars, loanVars, linkVars, transaction_count,
                        heap, all_accounts>>
    ELSE LET x == GeneratedId
         IN /\ heap' = Allocate(x, NewObject(x, acctName, initialAmount, limit))
            /\ all_accounts' = Register(x, x)
            /\ returned' = ReturnValue(x, 0, 0)
            /\ last' = Result("create", acctName, initialAmount, "", 0, TRUE,
                              "none", "", initialAmount)
            /\ UNCHANGED <<acctVars, gateVars, loanVars, linkVars,
                           transaction_count>>

Max(x, y) == IF x >= y THEN x ELSE y

\* BankAccount.__add__ with another account: `a + b`
Combine(a, b) ==
    LET oa == Object(a)
        ob == Object(b)
        x == GeneratedId
        sum == oa.balance + ob.balance
        built == NewObject(x, oa.name \o "+" \o ob.name, sum,
                           Max(oa.creditLimit, ob.creditLimit))
    IN IF InitialAmountRefused(sum)
       THEN /\ last' = Result("combine", a, sum, b, 0, FALSE, "ValueError",
                              "Initial balance cannot be negative", sum)
            /\ returned' = NoReturn
            /\ UNCHANGED <<acctVars, gateVars, loanVars, linkVars,
                           transaction_count, heap, all_accounts>>
       ELSE /\ heap' = Allocate(x,
                   [built EXCEPT !.savings = oa.savings + ob.savings,
                                 !.transactions = oa.transactions \o ob.transactions])
            /\ all_accounts' = Register(x, x)
            /\ returned' = ReturnValue(x, 0, 0)
            /\ last' = Result("combine", a, sum, b, 0, TRUE, "none", "", sum)
            /\ UNCHANGED <<acctVars, gateVars, loanVars, linkVars,
                           transaction_count>>

\* the values of the enumerations AccountStatus and TransactionType
AccountStatusValues == {"active", "locked", "suspended", "closed"}
TransactionTypeValues ==
    {"deposit", "withdrawal", "transfer", "loan", "repayment", "fee", "interest"}

\* Transaction.to_dict: the type is written as its value, the id as it is
to_dict(t) ==
    [transaction_id |-> t.id, transaction_type |-> t.type, amount |-> t.amount,
     description |-> t.description, provider |-> t.provider]

\* Transaction.from_dict: Transaction(...) turns the type's value back into
\* the enumeration, FEE standing in for an unknown value; then the id written
\* in the record replaces the generated one
from_dict(d) ==
    [type |-> IF d.transaction_type \in TransactionTypeValues
              THEN d.transaction_type ELSE "fee",
     amount |-> d.amount, description |-> d.description,
     provider |-> d.provider, id |-> d.transaction_id]

\* BankAccount.serialize
serialize(x) ==
    LET o == Object(x)
    IN [account_id |-> o.account_id, name |-> o.name, balance |-> o.balance,
        savings |-> o.savings, provider |-> o.provider,
        credit_score |-> o.credit_score, credit_limit |-> o.creditLimit,
        auto_savings_percentage |-> o.autoSavingsPercentage,
        status |-> o.status,
        transactions |-> [i \in 1 .. Len(o.transactions) |->
                              to_dict(o.transactions[i])],
        loan_balance |-> o.loan_balance, interest_rate |-> o.interest_rate,
        loan_history |-> o.loan_history,
        linked_accounts |-> IF x \in Accounts THEN DOMAIN external_ids[x]
                            ELSE {}]

\* a record as it arrives from outside: as exported, or with one value
\* replaced on the way
Tampering == {"none", "status", "transaction_type", "account_id"}

Tamper(data, how) ==
    CASE how = "status" -> [data EXCEPT !.status = "frozen"]
      [] how = "transaction_type" /\ data.transactions # <<>> ->
            [data EXCEPT !.transactions[1].transaction_type = "bogus"]
      [] how = "account_id" -> [data EXCEPT !.account_id = "foreign"]
      [] OTHER -> data

\* `AccountStatus(data['status'])` raises ValueError for any other value
StatusRefusedNever(status) == FALSE

StatusRefused(status) == status \notin AccountStatusValues

\* BankAccount.deserialize: the constructor runs first and registers the new
\* object under a generated id; the fields are assigned after it, in the
\* order of the source, and a failure leaves what was done before it
Deserialize(data) ==
    LET x == GeneratedId
        built == [NewObject(x, data.name, data.balance, data.credit_limit)
                     EXCEPT !.account_id = data.account_id,
                            !.savings = data.savings,
                            !.provider = data.provider,
                            !.credit_score = data.credit_score,
                            !.autoSavingsPercentage = data.auto_savings_percentage]
    IN IF InitialAmountRefused(data.balance)
       THEN /\ returned' = NoReturn
            /\ UNCHANGED <<acctVars, gateVars, loanVars, linkVars,
                           transaction_count, heap, all_accounts>>
       ELSE IF StatusRefused(data.status)
       THEN /\ heap' = Allocate(x, built)
            /\ all_accounts' = Register(x, x)
            /\ returned' = NoReturn
            /\ UNCHANGED <<acctVars, gateVars, loanVars, linkVars,
                           transaction_count>>
       ELSE /\ heap' = Allocate(x,
                   [built EXCEPT !.status = data.status,
                                 !.transactions =
                                     [i \in 1 .. Len(data.transactions) |->
                                         from_dict(data.transactions[i])],
                                 !.loan_balance = data.loan_balance,
                                 !.interest_rate = data.interest_rate,
                                 !.loan_history = data.loan_history])
            /\ all_accounts' = Register(x, x)
            /\ transaction_count' = transaction_count + Len(data.transactions)
            /\ returned' = ReturnValue(x, 0, 0)
            /\ UNCHANGED <<acctVars, gateVars, loanVars, linkVars>>

\* the exception deserialize is left by, "none" if it returns
DeserializeRaised(data) ==
    IF InitialAmountRefused(data.balance) \/ StatusRefused(data.status)
    THEN "ValueError" ELSE "none"

\* `BankAccount.deserialize(data)` on the record exported from x, as
\* exported or with one value replaced
Import(x, how) ==
    LET data == Tamper(serialize(x), how)
    IN /\ Deserialize(data)
       /\ last' = Result("import", x, data.balance, how, 0,
                         DeserializeRaised(data) = "none",
                         DeserializeRaised(data), "", data.balance)

\* `with account as acct:` around a block that adds to the balance and may
\* fail: __enter__ returns the account, __exit__ logs the exception and
\* returns False, which lets it through
ScopedBlock(a, amount, fault) ==
    /\ balance' = [balance EXCEPT ![a] =
                      IF Done(fault, 1) >= 1 THEN @ + amount ELSE @]
    /\ last' = Result("scoped_block", a, amount, "", fault, fault = 0,
                      IF fault = 0 THEN "none" ELSE "ValueError", "",
                      balance'[a])
    /\ UNCHANGED <<savings, transactions, autoSavingsPercentage, creditLimit,
                   credit_score, provider, gateVars, loanVars, linkVars,
                   transaction_count>>

\* ------------------------------------------------------------------- Next
Init == \E limit \in CreditLimits : Construct(100, limit)

\* one account pair, built with the default credit limit
InitConc == Construct(100, DefaultCreditLimit)

\* the accounts whose owner calls in; the others are reached through links
Operated == {"A"}

\* a call; at most one call of a run is left by a failure raised inside its
\* guarded region
Call(fault, A) ==
    /\ fault # 0 => ~faulted
    /\ A
    /\ faulted' = (faulted \/ fault # 0)
    /\ UNCHANGED <<concVars, dirVars>>

\* ---- the ledger: every balance-changing operation, links and transfers
Next ==
    \/ \E a \in Operated, amount \in Amounts, fault \in Faults(4) :
          /\ transaction_count < MaxTx
          /\ Call(fault, Deposit(a, amount, fault))
    \/ \E a \in Operated, amount \in Amounts, fault \in Faults(3) :
          /\ transaction_count < MaxTx
          /\ Call(fault, Withdraw(a, amount, fault))
    \/ \E a \in Operated, fault \in Faults(3) :
          /\ transaction_count < MaxTx
          /\ Call(fault, DeductMaintenanceFee(a, fault))
    \/ \E a \in Operated, percentage \in {100, 101} :
          Call(0, EnableAutoSavings(a, percentage))
    \/ \E a \in Operated, amount \in LoanAmounts, loan_type \in LoanTypes,
          fault \in Faults(6) :
          /\ transaction_count < MaxTx
          /\ Call(fault, RequestLoan(a, amount, loan_type, fault))
    \/ \E a \in Operated, amount \in Amounts, fault \in Faults(6) :
          /\ transaction_count < MaxTx
          /\ Call(fault, RepayLoan(a, amount, fault))
    \/ \E a \in Operated, x \in Pair :
          Call(0, LinkAccount(a, x))
    \/ \E a \in Operated, provider_name \in Providers :
          Call(0, UnlinkAccount(a, provider_name))
    \/ \E a \in Operated, to_provider \in Providers, amount \in Amounts,
          fault \in Faults(6) :
          /\ transaction_count + 1 < MaxTx
          /\ Call(fault, TransferBetweenAccounts(a, to_provider, amount, fault))

Spec == Init /\ [][Next]_vars

\* ---- deposits and withdrawals under every auto-savings setting, from
\* ---- every initial amount and credit limit
InitSave == \E initialAmount \in InitialAmounts, limit \in CreditLimits :
                Construct(initialAmount, limit)

NextSave ==
    \/ \E a \in Operated, amount \in Amounts, fault \in Faults(4) :
          /\ transaction_count < MaxTx
          /\ Call(fault, Deposit(a, amount, fault))
    \/ \E a \in Operated, amount \in Amounts, fault \in Faults(3) :
          /\ transaction_count < MaxTx
          /\ Call(fault, Withdraw(a, amount, fault))
    \/ \E a \in Operated, fault \in Faults(3) :
          /\ transaction_count < MaxTx
          /\ Call(fault, DeductMaintenanceFee(a, fault))
    \/ \E a \in Operated, percentage \in Percentages :
          Call(0, EnableAutoSavings(a, percentage))

SpecSave == InitSave /\ [][NextSave]_vars

\* ---- the security gate, with the operations it is to guard
NextGate ==
    \/ \E a \in Operated :
          /\ Len(security_log[a]) < MaxGateLog
          /\ Call(0, LockAccount(a))
    \/ \E a \in Operated, code \in Codes :
          /\ Len(security_log[a]) + 1 < MaxGateLog
          /\ Call(0, UnlockAccount(a, code))
    \/ \E a \in Operated :
          /\ Len(security_log[a]) + 1 < MaxGateLog
          /\ Call(0, RecordFailedAttempt(a))
    \/ \E a \in Operated, amount \in Amounts :
          /\ transaction_count < MaxGateTx
          /\ Len(security_log[a]) < MaxGateLog
          /\ Call(0, Deposit(a, amount, 0))
    \/ \E a \in Operated, amount \in Amounts :
          /\ transaction_count < MaxGateTx
          /\ Call(0, Withdraw(a, amount, 0))
    \/ \E a \in Operated :
          /\ transaction_count < MaxGateTx
          /\ Call(0, DeductMaintenanceFee(a, 0))
    \/ \E a \in Operated, amount \in LoanAmounts, loan_type \in LoanTypes :
          /\ transaction_count < MaxGateTx
          /\ Call(0, RequestLoan(a, amount, loan_type, 0))
    \/ \E a \in Operated, amount \in Amounts :
          /\ transaction_count < MaxGateTx
          /\ Call(0, RepayLoan(a, amount, 0))
    \/ \E a \in Operated, x \in Pair :
          Call(0, LinkAccount(a, x))
    \/ \E a \in Operated, to_provider \in Providers, amount \in Amounts :
          /\ transaction_count < MaxGateTx
          /\ Call(0, TransferBetweenAccounts(a, to_provider, amount, 0))

SpecGate == Init /\ [][NextGate]_vars

\* ---- the security gate alone: locks, unlock attempts and recorded failed
\* ---- attempts, past the locking threshold
NextAttempts ==
    \/ \E a \in Operated :
          /\ Len(security_log[a]) < MaxAttemptLog
          /\ Call(0, LockAccount(a))
    \/ \E a \in Operated, code \in Codes :
          /\ failed_attempts[a] < MaxAttempts
          /\ Len(security_log[a]) + 1 < MaxAttemptLog
          /\ Call(0, UnlockAccount(a, code))
    \/ \E a \in Operated :
          /\ failed_attempts[a] < MaxAttempts
          /\ Len(security_log[a]) + 1 < MaxAttemptLog
          /\ Call(0, RecordFailedAttempt(a))

SpecAttempts == InitConc /\ [][NextAttempts]_vars

\* ---- the link registry: links, relabelled accounts and transfers
Labels == {"PalmPay", "Kuda"}

NextLink ==
    \/ \E a \in Operated, x \in Pair :
          Call(0, LinkAccount(a, x))
    \/ \E a \in Operated, provider_name \in Providers :
          Call(0, UnlinkAccount(a, provider_name))
    \/ \E x \in Pair \ Operated, provider_name \in Labels :
          Call(0, SetProvider(x, provider_name))
    \/ \E a \in Operated, amount \in Amounts, fault \in Faults(3) :
          /\ transaction_count < MaxTx
          /\ Call(fault, Withdraw(a, amount, fault))
    \/ \E a \in Operated, to_provider \in Providers, amount \in Amounts,
          fault \in Faults(6) :
          /\ transaction_count + 1 < MaxTx
          /\ Call(fault, TransferBetweenAccounts(a, to_provider, amount, fault))

SpecLink == Init /\ [][NextLink]_vars

\* ---- transfers routed by provider label among two linkable accounts
NextRoute ==
    \/ \E a \in Operated, x \in Accounts \ Operated :
          Call(0, LinkAccount(a, x))
    \/ \E a \in Operated, provider_name \in Labels :
          Call(0, UnlinkAccount(a, provider_name))
    \/ \E x \in Accounts \ Operated, provider_name \in Labels :
          Call(0, SetProvider(x, provider_name))
    \/ \E a \in Operated, to_provider \in Labels, amount \in Amounts,
          fault \in Faults(6) :
          /\ transaction_count + 1 < MaxRouteTx
          /\ Call(fault, TransferBetweenAccounts(a, to_provider, amount, fault))

SpecRoute == InitConc /\ [][NextRoute]_vars

\* ---- the loan ledger: every loan type, amounts at the approval limits
NextLoan ==
    \/ \E a \in Operated, amount \in LoanAmountsAll, loan_type \in LoanTypesAll,
          fault \in Faults(6) :
          /\ transaction_count < MaxLoanTx
          /\ Call(fault, RequestLoan(a, amount, loan_type, fault))
    \/ \E a \in Operated, amount \in RepayAmounts, fault \in Faults(6) :
          /\ transaction_count < MaxLoanTx
          /\ Call(fault, RepayLoan(a, amount, fault))
    \/ \E a \in Operated, amount \in Amounts :
          /\ transaction_count < MaxLoanTx
          /\ Call(0, Withdraw(a, amount, 0))

SpecLoan == InitConc /\ [][NextLoan]_vars

\* a call of the directory or a query: it is not left by a failure inside a
\* guarded region
Direct(A) ==
    /\ A
    /\ UNCHANGED <<faulted, concVars>>

\* ---- one primary's registry over two other accounts, both funded
NextBook ==
    \/ \E a \in Operated, x \in Accounts :
          Call(0, LinkAccount(a, x))
    \/ \E a \in Operated, provider_name \in Providers \cup Labels :
          Call(0, UnlinkAccount(a, provider_name))
    \/ \E x \in Accounts \ Operated, provider_name \in Labels :
          Call(0, SetProvider(x, provider_name))
    \/ \E x \in Accounts \ Operated :
          /\ transaction_count < MaxBookTx
          /\ Call(0, Deposit(x, 300, 0))
    \/ \E a \in Operated :
          Direct(GetConsolidatedBalance(a))

SpecBook == InitConc /\ [][NextBook]_vars

\* ---- the directory: accounts made by the constructor, by `+` and by
\* ---- import, from accounts in every reachable state of their ledger
InitialAmountsAll == {-1, 0, 100}

NextDirectory ==
    \/ \E initialAmount \in InitialAmountsAll :
          /\ Cardinality(DOMAIN heap) < MaxObjects
          /\ Direct(NewAccount(initialAmount, "N", DefaultCreditLimit))
    \/ \E a \in Pair \cup DOMAIN heap, b \in Pair \cup DOMAIN heap :
          /\ Cardinality(DOMAIN heap) < MaxObjects
          /\ Direct(Combine(a, b))
    \/ \E x \in Operated \cup DOMAIN heap, how \in Tampering :
          /\ Cardinality(DOMAIN heap) < MaxObjects
          /\ Direct(Import(x, how))
    \/ \E a \in Operated :
          /\ transaction_count < MaxDirTx
          /\ Call(0, Deposit(a, 100, 0))
    \/ \E a \in Operated :
          /\ transaction_count < MaxDirTx
          /\ Call(0, Withdraw(a, 300, 0))
    \/ \E a \in Operated :
          /\ transaction_count < MaxDirTx
          /\ Call(0, RequestLoan(a, 300, "personal", 0))
    \/ \E a \in Operated :
          Call(0, EnableAutoSavings(a, 100))

SpecDirectory == InitConc /\ [][NextDirectory]_vars

\* ---- blocks scoped by an account, between deposits and withdrawals
NextBlock ==
    \/ \E a \in Operated, amount \in {-50, 50}, fault \in Faults(1) :
          /\ balance[a] + amount <= MaxBlockBalance
          /\ balance[a] + amount >= -MaxBlockBalance
          /\ Call(fault, ScopedBlock(a, amount, fault))
    \/ \E a \in Operated, amount \in Amounts, fault \in Faults(4) :
          /\ transaction_count < MaxBlockTx
          /\ Call(fault, Deposit(a, amount, fault))
    \/ \E a \in Operated, amount \in Amounts, fault \in Faults(3) :
          /\ transaction_count < MaxBlockTx
          /\ Call(fault, Withdraw(a, amount, fault))

SpecBlock == InitConc /\ [][NextBlock]_vars

\* ------------------------------------------------------ concurrent callers
\* Callers on their own threads.  One statement of a call is one step; an
\* augmented assignment `x += d` is two, the read of x and the write of the
\* sum, since another caller can run in between.

\* a statement: its kind, whether it acts on the primary ("P") or on the
\* resolved target ("T"), its operand, and the entry it files
I(k, who, d, type, description) ==
    [k |-> k, who |-> who, d |-> d, type |-> type, description |-> description]

S(k) == I(k, "P", 0, "", "")

\* Transaction(...): the id reads the counter, the counter is incremented last
NewTransaction == <<S("tx_id"), S("load_count"), I("store_count", "P", 1, "", "")>>

\* the statements of a call, in program order
Program(j) ==
    LET amount == j.amount
        savingsAmount == SavingsAmount(amount, autoSavingsPercentage[j.acct])
    IN CASE j.op = "deposit" ->
              <<S("check_operation_allowed"), S("enter"),
                S("load_balance"),
                I("store_balance", "P", amount - savingsAmount, "", ""),
                S("load_savings"),
                I("store_savings", "P", savingsAmount, "", "")>>
              \o NewTransaction
              \o <<I("add_transaction", "P", 1, "deposit",
                     "Deposited amount | Auto-Saved"),
                   S("exit")>>
         [] j.op = "withdraw" ->
              <<S("check_withdraw"), S("enter"),
                S("load_balance"), I("store_balance", "P", -amount, "", "")>>
              \o NewTransaction
              \o <<I("add_transaction", "P", 1, "withdrawal", "Withdrew amount"),
                   S("exit")>>
         [] j.op = "transfer" ->
              <<S("acquire"), S("check_provider"), S("check_funds"),
                S("find_target"), S("enter"), I("enter", "T", 0, "", ""),
                S("load_balance"), I("store_balance", "P", -amount, "", ""),
                I("load_balance", "T", 0, "", ""),
                I("store_balance", "T", amount, "", "")>>
              \o NewTransaction \o NewTransaction
              \o <<I("add_transaction", "P", 1, "transfer", "Transferred to"),
                   I("add_transaction", "T", 2, "transfer", "Received from"),
                   S("exit"), S("release")>>
         [] j.op = "link" ->
              <<S("acquire"), S("check_link"), S("append_linked"),
                S("set_external_id"), S("release")>>
         [] j.op = "unlink" ->
              <<S("acquire"), S("check_unlink"), S("pop_linked"),
                S("del_external_id"), S("release")>>
         [] j.op = "consolidate" ->
              <<S("acquire"), S("read_primary"), S("map_linked"),
                S("read_linked"), S("release")>>
         [] OTHER -> <<>>

\* a call with its statements laid out
Called(j) == [j EXCEPT !.prog = Program(j)]

\* the statements at which a region's next mutating statement begins
StatementStarts == {"load_balance", "load_savings", "tx_id", "add_transaction",
                    "exit"}

Running(t) == pc[t] \in 1 .. Len(job[t].prog)
Returned(t) == pc[t] > Len(job[t].prog)
Instr(t) == job[t].prog[pc[t]]

\* the failure of the call is raised here: inside the region, after exactly
\* fault - 1 of its mutating statements
Raising(t) ==
    /\ job[t].fault # 0
    /\ regs[t].snaps # <<>>
    /\ Instr(t).k \in StatementStarts
    /\ regs[t].count + 1 = job[t].fault

At(t, k) ==
    /\ pc[t] >= 1
    /\ ~regs[t].raised
    /\ pc[t] <= Len(job[t].prog)
    /\ job[t].prog[pc[t]].k = k
    /\ ~(/\ job[t].fault # 0
          /\ regs[t].snaps # <<>>
          /\ k \in StatementStarts
          /\ regs[t].count + 1 = job[t].fault)

AcctOf(t) == IF Instr(t).who = "P" THEN job[t].acct ELSE regs[t].target

Advance(t) == pc' = [pc EXCEPT ![t] = @ + 1]

\* `return` inside `with self._lock`: the lock's exit is the next statement
ReturnInside(t) == pc' = [pc EXCEPT ![t] = Len(job[t].prog)]

ledgerVars == <<acctVars, gateVars, loanVars, linkVars, transaction_count>>
callVars == <<faulted, last, job, start, dirVars>>

\* RLock.acquire succeeds at once for the owner and when nobody owns it
lock_acquirable_any(l, t) == TRUE

lock_acquirable(l, t) == l.owner = "none" \/ l.owner = t

\* RLock.release on leaving `with self._lock`, by return or by exception
lock_exit_leak(l, t) == l

lock_exit(l, t) ==
    IF l.level = 1 THEN RLock("none", 0) ELSE RLock(l.owner, l.level - 1)

\* `with self._lock:` entered
Acquire(t) ==
    /\ At(t, "acquire")
    /\ lock_acquirable(rlock[job[t].acct], t)
    /\ rlock' = [rlock EXCEPT ![job[t].acct] = RLock(t, @.level + 1)]
    /\ Advance(t)
    /\ UNCHANGED <<ledgerVars, callVars, regs>>

\* `with self._lock:` left by a return or by falling off its end
Release(t) ==
    /\ At(t, "release")
    /\ rlock' = [rlock EXCEPT ![job[t].acct] = lock_exit(@, t)]
    /\ regs' = [regs EXCEPT ![t].ret = IF @ = "" THEN "ok" ELSE @]
    /\ Advance(t)
    /\ UNCHANGED <<ledgerVars, callVars>>

\* deposit: self.security.check_operation_allowed("deposit")
CheckGate(t) ==
    /\ At(t, "check_operation_allowed")
    /\ IF check_operation_allowed(locked[job[t].acct])
       THEN /\ security_log' = [security_log EXCEPT ![job[t].acct] =
                   Append(@, SecurityEvent("Blocked access to deposit while account locked", 0))]
            /\ regs' = [regs EXCEPT ![t].ret = "raised"]
            /\ pc' = [pc EXCEPT ![t] = Len(job[t].prog) + 1]
       ELSE /\ Advance(t)
            /\ UNCHANGED <<security_log, regs>>
    /\ UNCHANGED <<acctVars, locked, failed_attempts, loanVars, linkVars,
                   transaction_count, callVars, rlock>>

\* withdraw: `if self.security.locked`, `if self.balance - amount >= -self.creditLimit`
CheckWithdraw(t) ==
    /\ At(t, "check_withdraw")
    /\ LET a == job[t].acct
       IN IF ~WithdrawBlocked(locked[a])
             /\ WithdrawAllowed(balance[a], job[t].amount, creditLimit[a])
          THEN Advance(t) /\ UNCHANGED regs
          ELSE /\ regs' = [regs EXCEPT ![t].ret = "failed"]
               /\ pc' = [pc EXCEPT ![t] = Len(job[t].prog) + 1]
    /\ UNCHANGED <<ledgerVars, callVars, rlock>>

\* transaction_context entered: prev_state = (account.balance, account.savings)
Enter(t) ==
    /\ At(t, "enter")
    /\ regs' = [regs EXCEPT ![t].snaps =
                  Append(@, <<AcctOf(t), balance[AcctOf(t)], savings[AcctOf(t)]>>)]
    /\ Advance(t)
    /\ UNCHANGED <<ledgerVars, callVars, rlock>>

\* the read of `account.balance += d`
LoadBalance(t) ==
    /\ At(t, "load_balance")
    /\ regs' = [regs EXCEPT ![t].tmp = balance[AcctOf(t)]]
    /\ Advance(t)
    /\ UNCHANGED <<ledgerVars, callVars, rlock>>

\* the read of `self.savings += savingsAmount`
LoadSavings(t) ==
    /\ At(t, "load_savings")
    /\ regs' = [regs EXCEPT ![t].tmp = savings[AcctOf(t)]]
    /\ Advance(t)
    /\ UNCHANGED <<ledgerVars, callVars, rlock>>

\* the read of `Transaction.transaction_count += 1`
LoadCount(t) ==
    /\ At(t, "load_count")
    /\ regs' = [regs EXCEPT ![t].tmp = transaction_count]
    /\ Advance(t)
    /\ UNCHANGED <<ledgerVars, callVars, rlock>>

\* the write of `account.balance += d`
StoreBalance(t) ==
    /\ At(t, "store_balance")
    /\ balance' = [balance EXCEPT ![AcctOf(t)] = regs[t].tmp + Instr(t).d]
    /\ regs' = [regs EXCEPT ![t].count = @ + 1]
    /\ Advance(t)
    /\ UNCHANGED <<savings, transactions, autoSavingsPercentage, creditLimit,
                   credit_score, provider, gateVars, loanVars, linkVars,
                   transaction_count, callVars, rlock>>

\* the write of `self.savings += savingsAmount`
StoreSavings(t) ==
    /\ At(t, "store_savings")
    /\ savings' = [savings EXCEPT ![AcctOf(t)] = regs[t].tmp + Instr(t).d]
    /\ regs' = [regs EXCEPT ![t].count = @ + 1]
    /\ Advance(t)
    /\ UNCHANGED <<balance, transactions, autoSavingsPercentage, creditLimit,
                   credit_score, provider, gateVars, loanVars, linkVars,
                   transaction_count, callVars, rlock>>

\* Transaction.__init__: the id is built from Transaction.transaction_count
TxId(t) ==
    /\ At(t, "tx_id")
    /\ regs' = [regs EXCEPT ![t].ids = Append(@, transaction_count)]
    /\ Advance(t)
    /\ UNCHANGED <<ledgerVars, callVars, rlock>>

\* the write of `Transaction.transaction_count += 1`
StoreCount(t) ==
    /\ At(t, "store_count")
    /\ transaction_count' = regs[t].tmp + Instr(t).d
    /\ regs' = [regs EXCEPT ![t].count = @ + 1]
    /\ Advance(t)
    /\ UNCHANGED <<acctVars, gateVars, loanVars, linkVars, callVars, rlock>>

\* account.add_transaction(tx)
AddTransaction(t) ==
    /\ At(t, "add_transaction")
    /\ LET tx == Transaction(Instr(t).type, job[t].amount, Instr(t).description,
                             IF Instr(t).who = "P" THEN provider[job[t].acct]
                                                   ELSE job[t].arg,
                             regs[t].ids[Instr(t).d])
       IN transactions' = [transactions EXCEPT ![AcctOf(t)] = add_transaction(@, tx)]
    /\ regs' = [regs EXCEPT ![t].count = @ + 1]
    /\ Advance(t)
    /\ UNCHANGED <<balance, savings, autoSavingsPercentage, creditLimit,
                   credit_score, provider, gateVars, loanVars, linkVars,
                   transaction_count, callVars, rlock>>

\* the region is left without a failure: every context it is inside exits
Exit(t) ==
    /\ At(t, "exit")
    /\ regs' = [regs EXCEPT ![t].snaps = <<>>,
                            ![t].ret = IF pc[t] = Len(job[t].prog) THEN "ok"
                                                                       ELSE @]
    /\ Advance(t)
    /\ UNCHANGED <<ledgerVars, callVars, rlock>>

\* a statement of the region raises
Raise(t) ==
    /\ Running(t)
    /\ ~regs[t].raised
    /\ Raising(t)
    /\ regs' = [regs EXCEPT ![t].raised = TRUE]
    /\ UNCHANGED <<ledgerVars, callVars, rlock, pc>>

\* transaction_context's except clause, innermost context first:
\* account.balance, account.savings = prev_state
Rollback(t) ==
    /\ Running(t)
    /\ regs[t].raised
    /\ regs[t].snaps # <<>>
    /\ LET n == Len(regs[t].snaps)
           prev == regs[t].snaps[n]
           out == transaction_context(<<prev[2], prev[3]>>,
                                      <<balance[prev[1]], savings[prev[1]]>>, TRUE)
       IN /\ balance' = [balance EXCEPT ![prev[1]] = out[1]]
          /\ savings' = [savings EXCEPT ![prev[1]] = out[2]]
          /\ regs' = [regs EXCEPT ![t].snaps = SubSeq(@, 1, n - 1)]
    /\ UNCHANGED <<transactions, autoSavingsPercentage, creditLimit,
                   credit_score, provider, gateVars, loanVars, linkVars,
                   transaction_count, callVars, rlock, pc>>

\* the exception leaves the call: `with self._lock` lets go of the lock on
\* the way out, the caller gets the exception
Propagate(t) ==
    /\ Running(t)
    /\ regs[t].raised
    /\ regs[t].snaps = <<>>
    /\ rlock' = IF rlock[job[t].acct].owner = t
                THEN [rlock EXCEPT ![job[t].acct] = lock_exit(@, t)]
                ELSE rlock
    /\ regs' = [regs EXCEPT ![t].ret = "raised"]
    /\ pc' = [pc EXCEPT ![t] = Len(job[t].prog) + 1]
    /\ UNCHANGED <<ledgerVars, callVars>>

\* transfer: `if to_provider not in self.external_ids`
CheckProvider(t) ==
    /\ At(t, "check_provider")
    /\ IF job[t].arg \notin DOMAIN external_ids[job[t].acct]
       THEN regs' = [regs EXCEPT ![t].ret = "failed"] /\ ReturnInside(t)
       ELSE Advance(t) /\ UNCHANGED regs
    /\ UNCHANGED <<ledgerVars, callVars, rlock>>

\* transfer: `if self.primary_account.balance < amount`
CheckFunds(t) ==
    /\ At(t, "check_funds")
    /\ IF TransferRefused(balance[job[t].acct], job[t].amount)
       THEN regs' = [regs EXCEPT ![t].ret = "failed"] /\ ReturnInside(t)
       ELSE Advance(t) /\ UNCHANGED regs
    /\ UNCHANGED <<ledgerVars, callVars, rlock>>

\* transfer: the search of the linked list for the provider label
FindTarget(t) ==
    /\ At(t, "find_target")
    /\ LET a == job[t].acct
           i == IndexOfProvider(linked_accounts[a], job[t].arg, 1)
       IN IF i = 0
          THEN regs' = [regs EXCEPT ![t].ret = "failed"] /\ ReturnInside(t)
          ELSE /\ regs' = [regs EXCEPT ![t].target = linked_accounts[a][i]]
               /\ Advance(t)
    /\ UNCHANGED <<ledgerVars, callVars, rlock>>

\* link_account: the self-link test and the search for the id
CheckLink(t) ==
    /\ At(t, "check_link")
    /\ LET a == job[t].acct
           x == job[t].arg
       IN IF x = a \/ IndexOfId(linked_accounts[a], x, 1) # 0
          THEN regs' = [regs EXCEPT ![t].ret = "failed"] /\ ReturnInside(t)
          ELSE Advance(t) /\ UNCHANGED regs
    /\ UNCHANGED <<ledgerVars, callVars, rlock>>

\* link_account: self.linked_accounts.append(external_account)
AppendLinked(t) ==
    /\ At(t, "append_linked")
    /\ linked_accounts' = [linked_accounts EXCEPT ![job[t].acct] =
                              Append(@, job[t].arg)]
    /\ Advance(t)
    /\ UNCHANGED <<acctVars, gateVars, loanVars, external_ids,
                   transaction_count, callVars, regs, rlock>>

\* link_account: self.external_ids[provider] = account_id
SetExternalId(t) ==
    /\ At(t, "set_external_id")
    /\ LET x == job[t].arg
       IN external_ids' = [external_ids EXCEPT ![job[t].acct] =
              [p \in DOMAIN @ \cup {provider[x]} |->
                  IF p = provider[x] THEN x ELSE @[p]]]
    /\ Advance(t)
    /\ UNCHANGED <<acctVars, gateVars, loanVars, linked_accounts,
                   transaction_count, callVars, regs, rlock>>

\* unlink_account: the map lookup and the search of the list for the id
CheckUnlink(t) ==
    /\ At(t, "check_unlink")
    /\ LET a == job[t].acct
           known == job[t].arg \in DOMAIN external_ids[a]
           i == IF known
                THEN IndexOfId(linked_accounts[a], external_ids[a][job[t].arg], 1)
                ELSE 0
       IN IF i = 0
          THEN regs' = [regs EXCEPT ![t].ret = "failed"] /\ ReturnInside(t)
          ELSE regs' = [regs EXCEPT ![t].idx = i] /\ Advance(t)
    /\ UNCHANGED <<ledgerVars, callVars, rlock>>

\* unlink_account: self.linked_accounts.pop(i)
PopLinked(t) ==
    /\ At(t, "pop_linked")
    /\ linked_accounts' = [linked_accounts EXCEPT ![job[t].acct] =
                              RemoveAt(@, regs[t].idx)]
    /\ Advance(t)
    /\ UNCHANGED <<acctVars, gateVars, loanVars, external_ids,
                   transaction_count, callVars, regs, rlock>>

\* unlink_account: del self.external_ids[provider_name]
DelExternalId(t) ==
    /\ At(t, "del_external_id")
    /\ external_ids' = [external_ids EXCEPT ![job[t].acct] =
                          [p \in DOMAIN @ \ {job[t].arg} |-> @[p]]]
    /\ Advance(t)
    /\ UNCHANGED <<acctVars, gateVars, loanVars, linked_accounts,
                   transaction_count, callVars, regs, rlock>>

\* get_consolidated_balance: the totals start from the primary account
ReadPrimary(t) ==
    /\ At(t, "read_primary")
    /\ regs' = [regs EXCEPT ![t].total =
                  <<balance[job[t].acct], savings[job[t].acct]>>]
    /\ Advance(t)
    /\ UNCHANGED <<ledgerVars, callVars, rlock>>

\* get_consolidated_balance: executor.map submits one read per linked account
MapLinked(t) ==
    /\ At(t, "map_linked")
    /\ LET linked == linked_accounts[job[t].acct]
       IN regs' = [regs EXCEPT ![t].pending = {linked[i] : i \in 1 .. Len(linked)}]
    /\ Advance(t)
    /\ UNCHANGED <<ledgerVars, callVars, rlock>>

\* get_consolidated_balance: a worker reads one account (in any order); the
\* caller goes on when every read is in
ReadLinked(t) ==
    /\ At(t, "read_linked")
    /\ IF regs[t].pending = {}
       THEN Advance(t) /\ UNCHANGED regs
       ELSE /\ \E x \in regs[t].pending :
                 regs' = [regs EXCEPT
                    ![t].pending = @ \ {x},
                    ![t].total = <<@[1] + balance[x], @[2] + savings[x]>>]
            /\ UNCHANGED pc
    /\ UNCHANGED <<ledgerVars, callVars, rlock>>

\* one step of a caller inside a guarded region
StepRegion(t) ==
    \/ Enter(t)
    \/ LoadBalance(t)
    \/ StoreBalance(t)
    \/ TxId(t)
    \/ LoadCount(t)
    \/ StoreCount(t)
    \/ AddTransaction(t)
    \/ Exit(t)
    \/ Raise(t)
    \/ Rollback(t)
    \/ Propagate(t)

\* one step of a caller inside deposit or withdraw, outside those above
StepOwner(t) ==
    \/ CheckGate(t)
    \/ CheckWithdraw(t)
    \/ LoadSavings(t)
    \/ StoreSavings(t)

\* one step of a caller inside transfer_between_accounts, outside its region
StepTransfer(t) ==
    \/ Acquire(t)
    \/ Release(t)
    \/ CheckProvider(t)
    \/ CheckFunds(t)
    \/ FindTarget(t)

\* one step of a caller inside link, unlink or get_consolidated_balance
StepRegistry(t) ==
    \/ CheckLink(t)
    \/ AppendLinked(t)
    \/ SetExternalId(t)
    \/ CheckUnlink(t)
    \/ PopLinked(t)
    \/ DelExternalId(t)
    \/ ReadPrimary(t)
    \/ MapLinked(t)
    \/ ReadLinked(t)

Idle == \A t \in Threads : pc[t] = 0

\* before the callers start, by sequential calls: each account is linked to
\* the other's registry, then the second account is funded
Setup ==
    /\ Idle
    /\ \/ /\ linked_accounts["A"] = <<>>
          /\ LinkAccount("A", "B")
       \/ /\ linked_accounts["A"] # <<>> /\ linked_accounts["B"] = <<>>
          /\ LinkAccount("B", "A")
       \/ /\ linked_accounts["B"] # <<>> /\ transactions["B"] = <<>>
          /\ Deposit("B", 300, 0)
    /\ UNCHANGED <<faulted, concVars, dirVars>>

SetupDone == transactions["B"] # <<>>

\* the callers are started, each with its call
BeginAll(j1, j2) ==
    /\ Idle
    /\ SetupDone
    /\ job' = [t \in Threads |-> IF t = "t1" THEN Called(j1) ELSE Called(j2)]
    /\ pc' = [t \in Threads |-> 1]
    /\ start' = Snapshot(balance, savings, transactions)
    /\ UNCHANGED <<ledgerVars, faulted, last, regs, rlock, dirVars>>

\* ---- deposits, withdrawals and transfers by two concurrent callers
RaceJobs(t) ==
    IF t = "t1"
    THEN {Job("deposit", "A", 100, "", fault) : fault \in Faults(4)}
         \cup {Job("withdraw", "A", 300, "", 0)}
         \cup {Job("transfer", "A", 100, "PalmPay", fault) : fault \in Faults(6)}
    ELSE {Job("deposit", a, 100, "", 0) : a \in Pair}
         \cup {Job("withdraw", a, 300, "", 0) : a \in Pair}
         \cup {Job("transfer", "B", 100, "WarpSpeed", 0)}

NextRace ==
    \/ Setup
    \/ \E j1 \in RaceJobs("t1"), j2 \in RaceJobs("t2") : BeginAll(j1, j2)
    \/ \E t \in Threads : StepRegion(t) \/ StepOwner(t) \/ StepTransfer(t)

SpecRace == InitConc /\ [][NextRace]_vars

\* ---- the registry's calls by two concurrent callers
RegistryJobs(t) ==
    {Job("link", "A", 0, "B", 0), Job("unlink", "A", 0, "PalmPay", 0),
     Job("consolidate", "A", 0, "", 0)}
    \cup IF t = "t1"
         THEN {Job("transfer", "A", 100, "PalmPay", fault) : fault \in Faults(6)}
         ELSE {Job("transfer", "A", 100, "PalmPay", 0),
               Job("transfer", "B", 100, "WarpSpeed", 0)}

NextRegistry ==
    \/ Setup
    \/ \E j1 \in RegistryJobs("t1"), j2 \in RegistryJobs("t2") : BeginAll(j1, j2)
    \/ \E t \in Threads : StepRegion(t) \/ StepTransfer(t) \/ StepRegistry(t)

\* every started caller keeps being scheduled
SpecRegistry ==
    /\ InitConc
    /\ [][NextRegistry]_vars
    /\ \A t \in Threads :
          WF_vars(StepRegion(t) \/ StepTransfer(t) \/ StepRegistry(t))

\* ------------------------------------------------------------ properties
GuardedOps == {"deposit", "withdraw", "fee", "request_loan", "repay_loan",
               "transfer"}

LastEntry(a) == transactions[a][Len(transactions[a])]

\* the ledger of a after the step is its ledger before plus one entry of the
\* given type and amount
AppendedOne(a, type, amount) ==
    /\ Len(transactions'[a]) = Len(transactions[a]) + 1
    /\ SubSeq(transactions'[a], 1, Len(transactions[a])) = transactions[a]
    /\ transactions'[a][Len(transactions'[a])].type = type
    /\ transactions'[a][Len(transactions'[a])].amount = amount

\* C1: after every operation (deposit, withdraw, maintenance fee, loan
\* request, loan repayment, transfer out, transfer in, with positive amounts)
\* every account's balance is at least -creditLimit; this includes the
\* operations that report a failure, which leave the balance where it was.
C1_BalanceFloor ==
    \A a \in Accounts : balance[a] >= -creditLimit[a]

\* a withdrawal that succeeded and took the balance exactly to the floor
C1_Witness ==
    /\ last.op = "withdraw" /\ last.success
    /\ balance[last.acct] = -creditLimit[last.acct]
    /\ balance[last.acct] < 0

\* C2: a transfer is all-or-nothing in every outcome, a failure inside the
\* guarded region included: either the primary balance fell by the amount, the
\* target balance rose by it and each ledger got exactly one `transfer` entry,
\* or neither balance changed and neither ledger got an entry.
C2_TransferAllOrNothing ==
    [][last'.op = "transfer" =>
        LET a == last'.acct
            amount == last'.amount
        IN \/ \E t \in Accounts \ {a} :
                 /\ balance'[a] = balance[a] - amount
                 /\ balance'[t] = balance[t] + amount
                 /\ AppendedOne(a, "transfer", amount)
                 /\ AppendedOne(t, "transfer", amount)
           \/ /\ balance' = balance
              /\ transactions' = transactions]_vars

\* C3: when the region protected by transaction_context fails, balance and
\* savings of every account are on exit what they were on entry (both, never
\* one without the other) and the failure reaches the caller; when the region
\* completes, the new values are kept.
C3_GuardRollback ==
    [][last'.op \in GuardedOps =>
        LET a == last'.acct
            amount == last'.amount
            regionFailed == last'.fault # 0 \/ last'.raised = "IndexError"
            kept == balance'[a] + savings'[a] - (balance[a] + savings[a])
        IN /\ regionFailed =>
                /\ balance' = balance
                /\ savings' = savings
                /\ last'.raised # "none"
                /\ ~last'.success
           /\ last'.success =>
                kept = IF last'.op \in {"deposit", "request_loan"} THEN amount
                                                                   ELSE -amount]_vars

\* a deposit left by a failure after it had changed both balance and savings
C3_Witness ==
    /\ last.op = "deposit" /\ last.fault >= 3 /\ last.raised = "Exception"
    /\ autoSavingsPercentage[last.acct] \notin {0, 100}

C5_DepositSplit ==
    [][\A a \in Accounts :
        (last'.op = "deposit" /\ last'.acct = a /\ last'.success) =>
            LET A == last'.amount
                p == autoSavingsPercentage[a]
                dS == savings'[a] - savings[a]
                dB == balance'[a] - balance[a]
            IN /\ 100 * dS = A * p
               /\ 100 * dB = A * (100 - p)
               /\ dB + dS = A
               /\ p = 0 => savings'[a] = savings[a]
               /\ p = 100 => balance'[a] = balance[a]]_vars

\* a successful deposit with everything diverted to savings
C5_Witness ==
    /\ last.op = "deposit" /\ last.success
    /\ autoSavingsPercentage[last.acct] = 100
    /\ savings[last.acct] >= last.amount

\* C6: while an account's gate is LOCKED no operation on it (deposit,
\* withdraw, maintenance fee, loan request, loan repayment, outgoing transfer)
\* changes its balance, savings or ledger.
C6_LockedBlocksMutation ==
    [][\A a \in Accounts :
        (locked[a] /\ last'.acct = a /\ last'.op \in GuardedOps) =>
            /\ balance'[a] = balance[a]
            /\ savings'[a] = savings[a]
            /\ transactions'[a] = transactions[a]]_vars

\* C7: deposit on an account whose gate is LOCKED raises SecurityException to
\* the caller and leaves balance, savings and ledger unchanged.
C7_DepositLockedRaises ==
    [][\A a \in Accounts :
        (locked[a] /\ last'.op = "deposit" /\ last'.acct = a) =>
            /\ last'.raised = "SecurityException"
            /\ ~last'.success
            /\ balance' = balance
            /\ savings' = savings
            /\ transactions' = transactions]_vars

\* a deposit that was refused by the locked gate
C7_Witness ==
    /\ last.op = "deposit" /\ locked[last.acct]
    /\ last.raised = "SecurityException"

\* C8: withdraw on an account whose gate is LOCKED returns a failed Result
\* saying the account is LOCKED, raises nothing and leaves balance, savings
\* and ledger unchanged, whatever the amount.
C8_WithdrawLockedFails ==
    [][\A a \in Accounts :
        (locked[a] /\ last'.op = "withdraw" /\ last'.acct = a) =>
            /\ ~last'.success
            /\ last'.raised = "none"
            /\ last'.message = "Withdrawal Failed: Account is LOCKED"
            /\ balance' = balance
            /\ savings' = savings
            /\ transactions' = transactions]_vars

\* a withdrawal the balance would have allowed, refused by the locked gate
C8_Witness ==
    /\ last.op = "withdraw" /\ locked[last.acct] /\ ~last.success
    /\ balance[last.acct] - last.amount >= -creditLimit[last.acct]

\* the last four events of a's log are three failed unlocks counted 1, 2, 3
\* and the too-many-attempts event, and before them the gate was UNLOCKED
\* with counter 0 (a fresh gate, or one just unlocked)
ThreeFailedUnlocks(a) ==
    LET log == security_log[a]
        n == Len(log)
    IN /\ n >= 4
       /\ log[n - 3] = SecurityEvent("Failed unlock attempt", 1)
       /\ log[n - 2] = SecurityEvent("Failed unlock attempt", 2)
       /\ log[n - 1] = SecurityEvent("Failed unlock attempt", 3)
       /\ log[n] = SecurityEvent("Account locked due to too many failed attempts", 0)
       /\ \/ n = 4
          \/ log[n - 4] = SecurityEvent("Account unlocked successfully", 0)

\* C9: from an UNLOCKED gate with counter 0, three consecutive failed unlock
\* calls leave the gate LOCKED.
C9_ThreeFailedUnlocksLock ==
    \A a \in Accounts : ThreeFailedUnlocks(a) => locked[a]

\* C10: a LOCKED gate becomes UNLOCKED only through unlock(code) with code
\* "1234" or absent, and that call resets the counter to 0 and returns true;
\* unlock with any other code returns false, leaves a LOCKED gate LOCKED and
\* raises the counter by exactly 1; lock() always leaves the gate LOCKED.
C10_GateTransitions ==
    [][\A a \in Accounts :
        LET unlockCall == last'.op = "unlock" /\ last'.acct = a
            goodCode == last'.arg \in {"1234", "None"}
        IN /\ (locked[a] /\ ~locked'[a]) => (unlockCall /\ goodCode)
           /\ (unlockCall /\ goodCode) =>
                 /\ ~locked'[a]
                 /\ failed_attempts'[a] = 0
                 /\ last'.success
           /\ (unlockCall /\ ~goodCode) =>
                 /\ ~last'.success
                 /\ locked[a] => locked'[a]
                 /\ failed_attempts'[a] = failed_attempts[a] + 1
           /\ (last'.op = "lock" /\ last'.acct = a) => locked'[a]]_vars

\* a LOCKED gate that a wrong code has failed to unlock
C10_Witness ==
    /\ last.op = "unlock" /\ last.arg = "0000" /\ ~last.success
    /\ locked[last.acct]
    /\ failed_attempts[last.acct] >= 1

\* C11: transfer(toProvider, amount) returns a failed Result, raises nothing
\* and changes no account and no registry when toProvider has no entry in the
\* provider map, when amount > primary.balance, or when no linked account
\* carries that provider label; so a successful transfer never leaves the
\* primary balance below 0, whatever the credit limit.
C11_TransferRefusals ==
    [][last'.op = "transfer" =>
        LET a == last'.acct
            to_provider == last'.arg
            amount == last'.amount
            unknown == to_provider \notin DOMAIN external_ids[a]
            short == amount > balance[a]
            unresolved == ~\E i \in 1 .. Len(linked_accounts[a]) :
                              provider[linked_accounts[a][i]] = to_provider
        IN /\ (unknown \/ short \/ unresolved) =>
                /\ ~last'.success
                /\ last'.raised = "none"
                /\ UNCHANGED <<acctVars, loanVars, linkVars>>
           /\ last'.success => balance'[a] >= 0]_vars

\* a transfer refused because the mapped provider's account was relabelled:
\* the map has the provider, the balance covers the amount, no linked account
\* carries the label
C11_Witness ==
    /\ last.op = "transfer" /\ ~last.success
    /\ last.message = "Could not find account"
    /\ last.arg \in DOMAIN external_ids[last.acct]
    /\ balance[last.acct] >= last.amount
    /\ Len(linked_accounts[last.acct]) > 0

\* C12: a transfer that fails after the primary was debited leaves balance
\* and savings of both the primary and the target as they were before the
\* call; so the sum of the balances is the same before and after every
\* transfer call, successful or not.
C12_TransferConservesMoney ==
    [][last'.op = "transfer" =>
        /\ balance'["A"] + balance'["B"] = balance["A"] + balance["B"]
        /\ last'.fault # 0 =>
              /\ balance' = balance
              /\ savings' = savings
              /\ last'.raised # "none"]_vars

\* a transfer left by a failure raised after both balances had been changed
C12_Witness ==
    /\ last.op = "transfer" /\ last.fault >= 3 /\ last.raised = "Exception"
    /\ balance[last.acct] >= last.amount

\* a ledger as the callers can compare it: type and amount of each entry
Kinds(txs) ==
    [a \in Accounts |->
        [i \in 1 .. Len(txs[a]) |-> <<txs[a][i].type, txs[a][i].amount>>]]

Outcome(bal, sav, txs) == [balance |-> bal, savings |-> sav, ledger |-> Kinds(txs)]

\* what a call makes of the accounts when it runs alone (the registries and
\* the account settings being those of the current state)
SeqCall(s, j) ==
    LET a == j.acct
        amount == j.amount
        ok == j.fault = 0
        filed(x, type) == [s.ledger EXCEPT ![x] = Append(@, <<type, amount>>)]
    IN CASE j.op = "deposit" ->
              LET savingsAmount == SavingsAmount(amount, autoSavingsPercentage[a])
              IN [balance |-> IF ok THEN [s.balance EXCEPT ![a] = @ + amount - savingsAmount]
                                    ELSE s.balance,
                  savings |-> IF ok THEN [s.savings EXCEPT ![a] = @ + savingsAmount]
                                    ELSE s.savings,
                  ledger |-> IF Done(j.fault, 4) >= 4 THEN filed(a, "deposit")
                                                      ELSE s.ledger]
         [] j.op = "withdraw" ->
              IF s.balance[a] - amount >= -creditLimit[a]
              THEN [balance |-> IF ok THEN [s.balance EXCEPT ![a] = @ - amount]
                                      ELSE s.balance,
                    savings |-> s.savings,
                    ledger |-> IF Done(j.fault, 3) >= 3 THEN filed(a, "withdrawal")
                                                        ELSE s.ledger]
              ELSE s
         [] j.op = "transfer" ->
              LET i == IndexOfProvider(linked_accounts[a], j.arg, 1)
                  x == linked_accounts[a][i]
                  done == Done(j.fault, 6)
                  first == IF done >= 5 THEN filed(a, "transfer") ELSE s.ledger
              IN IF j.arg \notin DOMAIN external_ids[a] \/ s.balance[a] < amount
                    \/ i = 0
                 THEN s
                 ELSE [balance |-> IF ok THEN [s.balance EXCEPT ![a] = @ - amount,
                                                               ![x] = @ + amount]
                                         ELSE s.balance,
                       savings |-> s.savings,
                       ledger |-> IF done >= 6
                                  THEN [first EXCEPT ![x] = Append(@, <<"transfer", amount>>)]
                                  ELSE first]
         [] OTHER -> s

\* the outcomes of the two calls made one after the other, in either order
Serial ==
    LET s0 == Outcome(start.balance, start.savings, start.transactions)
    IN {SeqCall(SeqCall(s0, job["t1"]), job["t2"]),
        SeqCall(SeqCall(s0, job["t2"]), job["t1"])}

AllReturned == \A t \in Threads : Returned(t)

\* C13: concurrent deposits and withdrawals on one account serialize: when
\* both callers have returned, balance, savings and ledger are those of the
\* two operations made one after the other in some order (no lost update, no
\* rollback that discards the other caller's committed change).
C13_SameAccountSerializes ==
    (/\ AllReturned
     /\ \A t \in Threads : job[t].op \in {"deposit", "withdraw"}
     /\ job["t1"].acct = job["t2"].acct)
    => Outcome(balance, savings, transactions) \in Serial

\* C14: a transfer from A to the linked B running concurrently with another
\* mutation of A or B made outside A's registry (a direct deposit or
\* withdrawal, or a transfer through the other account's registry) leaves the
\* balances of some sequential order of the two operations.
C14_TransferSerializes ==
    (/\ AllReturned
     /\ \E t \in Threads : \E u \in Threads \ {t} :
           /\ job[t].op = "transfer"
           /\ \/ job[u].op \in {"deposit", "withdraw"}
              \/ job[u].op = "transfer" /\ job[u].acct # job[t].acct)
    => balance \in {s.balance : s \in Serial}

RegistryOps == {"link", "unlink", "transfer", "consolidate"}

\* the caller is inside `with self._lock` of its registry
InCritical(t) ==
    /\ job[t].op \in RegistryOps
    /\ pc[t] > 1
    /\ pc[t] <= Len(job[t].prog)

\* the caller has changed the linked-account list and not yet the provider map
MidUpdate(t) ==
    /\ Running(t)
    /\ Instr(t).k \in {"set_external_id", "del_external_id"}

\* C15: within one registry link, unlink, transfer and consolidatedBalance
\* exclude each other: never are two callers inside the critical section of
\* the same registry, so a transfer or a consolidation pass never runs while
\* another caller's link or unlink has updated the list and not yet the map.
C15_RegistryExclusive ==
    \A t \in Threads : \A u \in Threads \ {t} :
        job[t].acct = job[u].acct =>
            /\ ~(InCritical(t) /\ InCritical(u))
            /\ (InCritical(t) /\ job[t].op \in {"transfer", "consolidate"})
                  => ~MidUpdate(u)

\* one caller is between the two updates of a link or unlink while the other
\* waits for the same registry with a transfer or a consolidation pass
C15_Witness ==
    \E t \in Threads : \E u \in Threads \ {t} :
        /\ MidUpdate(t)
        /\ job[u].acct = job[t].acct
        /\ job[u].op \in {"transfer", "consolidate"}
        /\ pc[u] = 1
        /\ rlock[job[t].acct].owner = t

\* C16: no call blocks for ever: under fair scheduling every started call
\* returns (two transfers in opposite directions between the same pair, and
\* every mix of link, unlink, transfer and consolidatedBalance), and a call
\* that has returned, by a failure inside the transfer too, no longer holds
\* its registry's lock.
C16_NoCallBlocks ==
    /\ \A t \in Threads : (pc[t] >= 1) ~> Returned(t)
    /\ [](\A t \in Threads : Returned(t) => rlock[job[t].acct].owner # t)

\* two transfers in opposite directions between the same pair, both inside
\* their guarded regions at once
C16_Witness ==
    /\ job["t1"].op = "transfer" /\ job["t2"].op = "transfer"
    /\ job["t1"].acct # job["t2"].acct
    /\ regs["t1"].target = job["t2"].acct
    /\ regs["t2"].target = job["t1"].acct
    /\ \A t \in Threads : InCritical(t) /\ Len(regs[t].snaps) = 2

\* twice the approval multiplier of a loan type
TwiceMultiplier(loan_type) ==
    CASE loan_type = "personal" -> 4
      [] loan_type = "auto" -> 6
      [] loan_type = "mortgage" -> 20
      [] loan_type = "business" -> 10
      [] OTHER -> 3

\* C17: requestLoan while the outstanding loan balance is > 0 returns a
\* failed Result and leaves balance, savings, credit score, outstanding loan
\* balance, interest rate, ledger and loan history unchanged, for every
\* amount and loan type.
C17_SecondLoanRefused ==
    [][\A a \in Accounts :
        (last'.op = "request_loan" /\ last'.acct = a /\ loan_balance[a] > 0) =>
            /\ ~last'.success
            /\ last'.raised = "none"
            /\ UNCHANGED <<acctVars, loanVars>>]_vars

\* a request refused for the outstanding loan alone: of another type than the
\* outstanding loan and within the approval limit
C17_Witness ==
    /\ last.op = "request_loan" /\ ~last.success
    /\ last.message = "Loan Request Denied: You have an active loan"
    /\ loan_history[last.acct] # <<>>
    /\ loan_history[last.acct][Len(loan_history[last.acct])].loan_type # last.arg
    /\ 2 * last.amount <= credit_score[last.acct] * TwiceMultiplier(last.arg)

\* C18: requestLoan(amount, type) is granted only if
\* amount <= creditScore * multiplier(type), the score being read at the
\* request (personal 2, auto 3, mortgage 10, business 5, other 1.5); a request
\* above the bound is denied with balance, score and loan balance unchanged.
C18_ApprovalLimit ==
    [][\A a \in Accounts :
        (last'.op = "request_loan" /\ last'.acct = a) =>
            LET within == 2 * last'.amount
                            <= credit_score[a] * TwiceMultiplier(last'.arg)
            IN /\ last'.success => within
               /\ ~within =>
                     /\ ~last'.success
                     /\ balance' = balance
                     /\ credit_score' = credit_score
                     /\ loan_balance' = loan_balance]_vars

\* a loan of a type outside the table granted at exactly 1.5 times the score
C18_Witness ==
    /\ last.op = "request_loan" /\ last.success
    /\ last.arg = "student"
    /\ 2 * last.amount = 3 * (credit_score[last.acct] + LoanScorePenalty)

\* C19: a granted loan of amount L and type t raises balance by exactly L,
\* sets the outstanding loan balance to L, lowers the credit score by exactly
\* 30, sets the interest rate to the table value for t (personal 5%, auto
\* 3.5%, mortgage 2.5%, business 6%), and appends exactly one `loan` ledger
\* entry and one loan-history record with status `active`.
C19_GrantEffects ==
    [][\A a \in Accounts :
        (last'.op = "request_loan" /\ last'.acct = a /\ last'.success) =>
            LET L == last'.amount
                t == last'.arg
                n == Len(loan_history[a])
            IN /\ balance'[a] = balance[a] + L
               /\ loan_balance'[a] = L
               /\ credit_score'[a] = credit_score[a] - 30
               /\ t = "personal" => interest_rate'[a] = 50
               /\ t = "auto" => interest_rate'[a] = 35
               /\ t = "mortgage" => interest_rate'[a] = 25
               /\ t = "business" => interest_rate'[a] = 60
               /\ AppendedOne(a, "loan", L)
               /\ Len(loan_history'[a]) = n + 1
               /\ SubSeq(loan_history'[a], 1, n) = loan_history[a]
               /\ loan_history'[a][n + 1].status = "active"
               /\ loan_history'[a][n + 1].amount = L]_vars

\* a mortgage granted at its approval limit
C19_Witness ==
    /\ last.op = "request_loan" /\ last.success
    /\ last.arg = "mortgage"
    /\ interest_rate[last.acct] = 25
    /\ loan_balance[last.acct] = 5000

\* C20: repayLoan(amount > 0) fails with no state change if amount exceeds
\* the outstanding loan balance or the account balance; otherwise it lowers
\* balance and outstanding loan by exactly the amount, raises the credit
\* score by exactly 20, appends one `repayment` entry, and marks the most
\* recent loan-history record `repaid` exactly when the outstanding loan
\* reaches 0.  (Calls in which no failure is injected into the region.)
C20_RepayContract ==
    [][\A a \in Accounts :
        (last'.op = "repay_loan" /\ last'.acct = a /\ last'.fault = 0) =>
            LET amount == last'.amount
                n == Len(loan_history[a])
            IN IF amount > loan_balance[a] \/ amount > balance[a]
               THEN /\ ~last'.success
                    /\ UNCHANGED <<acctVars, loanVars>>
               ELSE /\ last'.success
                    /\ balance'[a] = balance[a] - amount
                    /\ loan_balance'[a] = loan_balance[a] - amount
                    /\ credit_score'[a] = credit_score[a] + 20
                    /\ AppendedOne(a, "repayment", amount)
                    /\ loan_balance'[a] = 0 =>
                          /\ n > 0
                          /\ loan_history'[a] =
                                [loan_history[a] EXCEPT ![n].status = "repaid"]
                    /\ loan_balance'[a] # 0 => loan_history' = loan_history]_vars

\* ------------------------------------------------------------- C21 .. C30
\* the accounts in a's linked-account list
LinkedSet(a) == {linked_accounts[a][i] : i \in DOMAIN linked_accounts[a]}

\* C21: link(X) returns false and leaves the linked-account list and the
\* provider map unchanged when X is the primary itself or when X's id is
\* linked already; so the registry never contains the primary's own id and
\* never contains the same account id twice.
C21_LinkRefusals ==
    /\ [][last'.op = "link" =>
            LET a == last'.acct
                x == last'.arg
            IN (x = a \/ x \in LinkedSet(a)) =>
                  /\ ~last'.success
                  /\ UNCHANGED linkVars]_vars
    /\ [](\A a \in Accounts :
            /\ a \notin LinkedSet(a)
            /\ \A i, j \in DOMAIN linked_accounts[a] :
                  i # j => linked_accounts[a][i] # linked_accounts[a][j])

\* a second link of an account refused while two accounts are linked
C21_Witness ==
    /\ last.op = "link" /\ ~last.success
    /\ last.arg # last.acct
    /\ last.arg \in LinkedSet(last.acct)
    /\ Len(linked_accounts[last.acct]) = 2

\* C22: unlink(providerName) returns false and changes nothing when the
\* provider has no entry in the map; otherwise it returns true, removes that
\* entry and the one account it named from the list, and leaves every
\* account (balance, savings, ledger, loan state), every other link and the
\* directory as they were.
C22_UnlinkContract ==
    [][last'.op = "unlink" =>
        LET a == last'.acct
            provider_name == last'.arg
        IN IF provider_name \notin DOMAIN external_ids[a]
           THEN /\ ~last'.success
                /\ UNCHANGED <<acctVars, loanVars, linkVars, heap, all_accounts>>
           ELSE LET x == external_ids[a][provider_name]
                IN /\ last'.success
                   /\ external_ids' = [external_ids EXCEPT ![a] =
                          [q \in DOMAIN @ \ {provider_name} |-> @[q]]]
                   /\ linked_accounts' = [linked_accounts EXCEPT ![a] =
                          SelectSeq(@, LAMBDA y : y # x)]
                   /\ Len(linked_accounts'[a]) = Len(linked_accounts[a]) - 1
                   /\ UNCHANGED <<acctVars, loanVars, heap, all_accounts>>]_vars

\* an unlink that succeeded and left another account linked, one that
\* carries the very label that was unlinked
C22_Witness ==
    /\ last.op = "unlink" /\ last.success
    /\ Len(linked_accounts[last.acct]) = 1
    /\ provider[linked_accounts[last.acct][1]] = last.arg
    /\ balance[linked_accounts[last.acct][1]] > 0

\* sum of f over a set of accounts
RECURSIVE SumOver(_, _)
SumOver(f, set) ==
    IF set = {} THEN 0
    ELSE LET x == CHOOSE y \in set : TRUE
         IN f[x] + SumOver(f, set \ {x})

\* C23: consolidatedBalance() returns the primary's balance plus the balances
\* of the accounts linked at the time, and the same for savings, and changes
\* no account and no registry; an account that was unlinked is not counted.
C23_ConsolidatedBalance ==
    [][last'.op = "consolidated" =>
        LET a == last'.acct
        IN /\ returned'.total_balance = balance[a] + SumOver(balance, LinkedSet(a))
           /\ returned'.total_savings = savings[a] + SumOver(savings, LinkedSet(a))
           /\ UNCHANGED <<acctVars, loanVars, linkVars, heap, all_accounts>>]_vars

\* the totals taken while one funded account is linked and another funded
\* account is not
C23_Witness ==
    /\ last.op = "consolidated"
    /\ Len(linked_accounts[last.acct]) = 1
    /\ balance[linked_accounts[last.acct][1]] > 0
    /\ \E x \in Accounts \ (LinkedSet(last.acct) \cup {last.acct}) : balance[x] > 0
    /\ returned.total_balance =
          balance[last.acct] + balance[linked_accounts[last.acct][1]]

\* C24: constructing an account with initialAmount < 0 fails with ValueError
\* and registers nothing in the directory; with initialAmount >= 0, 0
\* included, it succeeds with balance = initialAmount and savings = 0, and
\* the new account is in the directory under its id.
C24_ConstructionContract ==
    [][last'.op = "create" =>
        IF last'.amount < 0
        THEN /\ last'.raised = "ValueError"
             /\ UNCHANGED <<heap, all_accounts>>
        ELSE LET x == returned'.account
             IN /\ last'.raised = "none"
                /\ x \notin Refs
                /\ x \in DOMAIN heap'
                /\ heap'[x].balance = last'.amount
                /\ heap'[x].savings = 0
                /\ heap'[x].account_id \in DOMAIN all_accounts'
                /\ all_accounts'[heap'[x].account_id] = x]_vars

\* a construction refused for a negative amount, after one with amount 0
\* had succeeded
C24_Witness ==
    /\ last.op = "create" /\ last.raised = "ValueError" /\ last.amount < 0
    /\ \E x \in DOMAIN heap :
          /\ heap[x].name = "N" /\ heap[x].balance = 0 /\ heap[x].savings = 0
          /\ get_account_by_id(x) = x

\* C25: enableAutoSavings(percentage) fails with ValueError and leaves the
\* stored percentage as it was when percentage is outside [0, 100]; so
\* 0 <= autoSavingsPercentage <= 100 and savings >= 0 hold in every state.
C25_AutoSavingsRange ==
    /\ [][last'.op = "enable_auto_savings"
             /\ (last'.amount < 0 \/ last'.amount > 100) =>
                 /\ last'.raised = "ValueError"
                 /\ autoSavingsPercentage' = autoSavingsPercentage]_vars
    /\ [](\A a \in Accounts :
            /\ 0 <= autoSavingsPercentage[a]
            /\ autoSavingsPercentage[a] <= 100
            /\ savings[a] >= 0)

\* a percentage above 100 refused after a deposit was saved whole at 100
C25_Witness ==
    /\ last.op = "enable_auto_savings" /\ last.raised = "ValueError"
    /\ last.amount > 100
    /\ autoSavingsPercentage[last.acct] = 100
    /\ savings[last.acct] > 0

\* C26: a + b always produces a new account with balance a.balance +
\* b.balance, savings a.savings + b.savings, credit limit the larger of the
\* two and ledger a's followed by b's, and leaves a and b as they were.
C26_CombineContract ==
    [][last'.op = "combine" =>
        LET oa == Object(last'.acct)
            ob == Object(last'.arg)
            x == returned'.account
        IN /\ last'.raised = "none"
           /\ x \notin Refs
           /\ x \in DOMAIN heap'
           /\ heap'[x].balance = oa.balance + ob.balance
           /\ heap'[x].savings = oa.savings + ob.savings
           /\ heap'[x].creditLimit = Max(oa.creditLimit, ob.creditLimit)
           /\ heap'[x].transactions = oa.transactions \o ob.transactions
           /\ \A r \in DOMAIN heap : heap'[r] = heap[r]
           /\ UNCHANGED <<acctVars, loanVars, linkVars>>]_vars

\* C27: every account a that a construction, a combination or an import
\* has returned is in the directory under its own id and under no other
\* key, so that directory.get(a.id) returns a; and no entry is ever removed.
C27_DirectoryKeyedById ==
    /\ [][last'.op \in {"create", "combine", "import"} /\ last'.raised = "none" =>
            LET x == returned'.account
            IN /\ \A key \in DOMAIN all_accounts' :
                     all_accounts'[key] = x => key = heap'[x].account_id
               /\ heap'[x].account_id \in DOMAIN all_accounts'
               /\ all_accounts'[heap'[x].account_id] = x]_vars
    /\ [][\A key \in DOMAIN all_accounts : key \in DOMAIN all_accounts']_vars

\* C28: importing a record with a balance the constructor accepts does not
\* fail whatever its status and transaction-type values are, and the
\* imported account and its ledger entries carry defined values of the
\* enumerations.
C28_ImportDefaultsEnumerations ==
    [][last'.op = "import" /\ last'.amount >= 0 =>
        /\ last'.raised = "none"
        /\ LET o == heap'[returned'.account]
           IN /\ o.status \in AccountStatusValues
              /\ \A i \in DOMAIN o.transactions :
                    o.transactions[i].type \in TransactionTypeValues]_vars

\* C29: import(export(a)) succeeds for every reachable account a and yields
\* an account with a's id, name, balance, savings, provider, credit score,
\* credit limit, auto-savings percentage and loan balance.
C29_ExportImportRoundTrip ==
    [][last'.op = "import" /\ last'.arg = "none" =>
        /\ last'.raised = "none"
        /\ LET a == Object(last'.acct)
               o == heap'[returned'.account]
           IN /\ o.account_id = a.account_id
              /\ o.name = a.name
              /\ o.balance = a.balance
              /\ o.savings = a.savings
              /\ o.provider = a.provider
              /\ o.credit_score = a.credit_score
              /\ o.creditLimit = a.creditLimit
              /\ o.autoSavingsPercentage = a.autoSavingsPercentage
              /\ o.loan_balance = a.loan_balance]_vars

\* C30: a block scoped by an account that changes the balance and then
\* fails leaves the balance as it was before the block, and the failure
\* reaches the caller.
C30_ScopedBlockRestores ==
    [][last'.op = "scoped_block" /\ last'.fault = 2 =>
        /\ balance' = balance
        /\ last'.raised # "none"]_vars

\* ------------------------------------------------------------- C31 .. C40
\* the operations that file a ledger entry inside a guarded region
LedgerOps == {"deposit", "withdraw", "fee", "request_loan", "repay_loan"}

\* C31: a deposit, withdraw, maintenance fee, requestLoan or repayLoan that
\* is left by a failure raised inside its guarded region leaves the whole
\* account as it was before the call: balance, savings, ledger, credit
\* score, outstanding loan balance and loan history.
C31_FailureRestoresAll ==
    [][(last'.op \in LedgerOps /\ last'.raised \notin {"none", "SecurityException"}) =>
        /\ balance' = balance
        /\ savings' = savings
        /\ transactions' = transactions
        /\ credit_score' = credit_score
        /\ loan_balance' = loan_balance
        /\ loan_history' = loan_history]_vars

\* C32: every lock, every unlock attempt, and every deposit or withdraw
\* blocked by the LOCKED gate appends at least one record to the gate's
\* event log, and the records already in the log stay as they are.
C32_GateLogComplete ==
    [][\A a \in Accounts :
        /\ \A i \in DOMAIN security_log[a] :
              /\ i \in DOMAIN security_log'[a]
              /\ security_log'[a][i] = security_log[a][i]
        /\ (/\ last'.acct = a
            /\ \/ last'.op \in {"lock", "unlock"}
               \/ last'.op \in {"deposit", "withdraw"} /\ locked[a]) =>
              Len(security_log'[a]) > Len(security_log[a])]_vars

\* the ledger entry type each operation files
EntryType(op) ==
    CASE op = "deposit" -> "deposit"
      [] op = "withdraw" -> "withdrawal"
      [] op = "fee" -> "fee"
      [] op = "request_loan" -> "loan"
      [] op = "repay_loan" -> "repayment"

\* C33: every successful deposit, withdraw, maintenance fee, loan grant and
\* repayment appends exactly one ledger entry of the matching type with the
\* operation's amount; an operation that returns a failed Result appends
\* none; and every ledger keeps the entries it had, in their order and
\* unchanged.
C33_LedgerAppendOnly ==
    [][\A a \in Accounts :
        /\ Len(transactions'[a]) >= Len(transactions[a])
        /\ SubSeq(transactions'[a], 1, Len(transactions[a])) = transactions[a]
        /\ (last'.op \in LedgerOps /\ last'.acct = a /\ last'.success) =>
              AppendedOne(a, EntryType(last'.op), last'.amount)
        /\ (last'.op \in LedgerOps /\ ~last'.success /\ last'.raised = "none") =>
              transactions'[a] = transactions[a]]_vars

\* a refused call on a ledger that already holds a loan entry followed by a
\* repayment entry
C33_Witness ==
    /\ Len(transactions["A"]) = 2
    /\ transactions["A"][1].type = "loan"
    /\ transactions["A"][2].type = "repayment"
    /\ last.op \in LedgerOps /\ ~last.success /\ last.raised = "none"

\* C34: the credit score changes only by -30 on a successful loan grant and
\* by +20 on a successful repayment; every other call, failed loan requests
\* and failed repayments included, leaves every account's score unchanged.
C34_CreditScoreWriters ==
    [][\A a \in Accounts :
        credit_score'[a] =
            IF last'.acct = a /\ last'.success /\ last'.op = "request_loan"
            THEN credit_score[a] - 30
            ELSE IF last'.acct = a /\ last'.success /\ last'.op = "repay_loan"
            THEN credit_score[a] + 20
            ELSE credit_score[a]]_vars

\* C35: a recorded failed attempt raises the failed-attempt counter by one;
\* when the counter thereby reaches 3 or more the gate is LOCKED afterwards
\* and a lock event is the last record of the log; and a recorded failed
\* attempt on a LOCKED gate leaves it LOCKED.
C35_FailedAttemptsLock ==
    [][\A a \in Accounts :
        (last'.op = "record_failed_attempt" /\ last'.acct = a) =>
            /\ failed_attempts'[a] = failed_attempts[a] + 1
            /\ failed_attempts'[a] >= 3 =>
                  /\ locked'[a]
                  /\ Len(security_log'[a]) = Len(security_log[a]) + 2
                  /\ security_log'[a][Len(security_log'[a])].message = "Account locked"
            /\ locked[a] => locked'[a]]_vars

\* four failed attempts recorded on a fresh gate: the third has locked it,
\* the fourth found it LOCKED
C35_Witness ==
    /\ last.op = "record_failed_attempt"
    /\ failed_attempts["A"] = 4
    /\ locked["A"]
    /\ Len(security_log["A"]) = 6
    /\ \A i \in 1 .. 6 : security_log["A"][i].message \in
            {"Failed authentication attempt", "Account locked"}

\* C36: any two distinct ledger entries, of one account or of two, differ
\* in their id (the provider label and the value the shared counter had
\* when the entry was created; entries of one second share the time stamp).
C36_UniqueEntryIds ==
    \A a, b \in Accounts :
        \A i \in DOMAIN transactions[a], j \in DOMAIN transactions[b] :
            (a # b \/ i # j) =>
                <<transactions[a][i].provider, transactions[a][i].id>> #
                <<transactions[b][j].provider, transactions[b][j].id>>

\* what account a holds: balance plus savings
Holdings(bal, sav, a) == bal[a] + sav[a]

\* C37: every call changes balance + savings of an account by exactly the
\* amount of a successful deposit or loan grant on it (+), of a successful
\* withdrawal, maintenance fee or loan repayment on it (-), of a successful
\* transfer it sends (-) or receives (+, one receiver), and by nothing
\* otherwise; so balance + savings is the initial balance plus and minus the
\* amounts of the successful operations, and failed ones contribute nothing.
C37_MoneyAccounted ==
    [][LET d(a) == Holdings(balance', savings', a) - Holdings(balance, savings, a)
           s == last'.acct
           amount == last'.amount
       IN IF last'.success /\ last'.op \in {"deposit", "request_loan"}
          THEN \A a \in Accounts : d(a) = IF a = s THEN amount ELSE 0
          ELSE IF last'.success /\ last'.op \in {"withdraw", "fee", "repay_loan"}
          THEN \A a \in Accounts : d(a) = IF a = s THEN -amount ELSE 0
          ELSE IF last'.success /\ last'.op = "transfer"
          THEN \E t \in Accounts \ {s} :
                  \A a \in Accounts : d(a) = IF a = s THEN -amount
                                             ELSE IF a = t THEN amount ELSE 0
          ELSE \A a \in Accounts : d(a) = 0]_vars

\* a transfer sent after a deposit with auto-savings: the sender holds the
\* initial 100 plus the deposit minus the transfer, in balance and savings
C37_Witness ==
    /\ last.op = "transfer" /\ last.success /\ last.acct = "A"
    /\ savings["A"] > 0
    /\ Len(transactions["A"]) = 2
    /\ transactions["A"][1].type = "deposit"
    /\ balance["A"] + savings["A"] =
          100 + transactions["A"][1].amount - last.amount
    /\ balance["B"] + savings["B"] = last.amount

\* C38: in every registry, each provider of the map names the id of an
\* account in the linked list, and each account of the linked list is named
\* by some entry of the map (so that it can be unlinked and transferred to).
C38_RegistryConsistent ==
    \A a \in Accounts :
        /\ \A p \in DOMAIN external_ids[a] : external_ids[a][p] \in LinkedSet(a)
        /\ \A x \in LinkedSet(a) :
              \E p \in DOMAIN external_ids[a] : external_ids[a][p] = x

\* C39: a successful transfer(toProvider, amount) credits the account whose
\* id the provider map associates with toProvider when the call is made,
\* and leaves balance and ledger of every other linked account unchanged.
C39_TransferCreditsMapped ==
    [][(last'.op = "transfer" /\ last'.success) =>
        LET a == last'.acct
            t == external_ids[a][last'.arg]
        IN /\ balance'[t] = balance[t] + last'.amount
           /\ \A x \in LinkedSet(a) \ {t} :
                 /\ balance'[x] = balance[x]
                 /\ transactions'[x] = transactions[x]]_vars

\* C40: for every account, the outstanding loan balance is between 0 and
\* the amount of the most recent grant, it is > 0 exactly when the most
\* recent loan-history record is `active`, and at most one loan-history
\* record is `active`.
C40_LoanStateConsistent ==
    \A a \in Accounts :
        LET h == loan_history[a]
            n == Len(h)
        IN /\ 0 <= loan_balance[a]
           /\ loan_balance[a] <= (IF n = 0 THEN 0 ELSE h[n].amount)
           /\ loan_balance[a] > 0 <=> (n > 0 /\ h[n].status = "active")
           /\ Cardinality({i \in 1 .. n : h[i].status = "active"}) <= 1

====
